---------------------------- MODULE Credentials ----------------------------
(***************************************************************************)
(* The passwords of VPN accounts that the panel remembers for .vpn files:  *)
(* app/credentials.py, and the account routes of app/routers/se_hub.py.    *)
(* A password is known by its hash. Two requests may be under way at once  *)
(* where MayRace allows it, and accounts are made outside the panel too.   *)
(***************************************************************************)
EXTENDS Naturals, FiniteSets

CONSTANTS Hashes,        \* hashes of the passwords an account may have
          Nil,           \* no account, no row, no password in the body
          Clerks,        \* the threads that serve account requests
          MayRace,       \* whether requests overlap
          MaxActs        \* bound: requests and outside changes, in all

ASSUME CredAssumption == MaxActs \in Nat

VARIABLES
    account,   \* the account at the VPN server: its hash
    cached,    \* the row of VpnUserCredential: its hash
    clerk,     \* per thread: what it serves, how far it is, what it holds
    file,      \* the .vpn file handed out last: its hash, the account's then
    acts

credVars == <<account, cached, clerk, file, acts>>

Free == [at |-> "free"]

CredInit ==
    /\ account = Nil /\ cached = Nil
    /\ clerk = [c \in Clerks |-> Free]
    /\ file = Nil /\ acts = 0

Act == /\ acts < MaxActs /\ acts' = acts + 1
Accept(c) ==
    /\ clerk[c].at = "free" /\ Act
    /\ MayRace \/ \A d \in Clerks : clerk[d].at = "free"
Goes(c, to, hash) == clerk' = [clerk EXCEPT ![c] = [at |-> to, hash |-> hash]]
Ends1(c) == clerk' = [clerk EXCEPT ![c] = Free]

\* CreateUser, and SetUser with a password or without one: the server changes
\* first; a refusal (the account is there, or is not) ends the request.
CreateUser(c, h) ==
    /\ Accept(c) /\ account = Nil
    /\ account' = h /\ Goes(c, "remember", h)
    /\ UNCHANGED <<cached, file>>

SetUser(c, h) ==
    /\ Accept(c) /\ account # Nil
    /\ account' = (IF h = Nil THEN account ELSE h)
    /\ Goes(c, "remember", h)
    /\ UNCHANGED <<cached, file>>

\* _remember_password.
Remember(c) ==
    /\ clerk[c].at = "remember"
    /\ cached' = (IF clerk[c].hash = Nil THEN cached ELSE clerk[c].hash)
    /\ Ends1(c)
    /\ UNCHANGED <<account, file, acts>>

\* DeleteUser, then delete_credential.
DeleteUser(c) ==
    /\ Accept(c) /\ account # Nil
    /\ account' = Nil /\ Goes(c, "forget", Nil)
    /\ UNCHANGED <<cached, file>>

\* Mutant of ForgetUser: the row outlives its account.
ForgetUserNot(c) ==
    /\ clerk[c].at = "forget"
    /\ Ends1(c)
    /\ UNCHANGED <<account, cached, file, acts>>

ForgetUser(c) ==
    /\ clerk[c].at = "forget"
    /\ cached' = Nil /\ Ends1(c)
    /\ UNCHANGED <<account, file, acts>>

\* user_vpn_file: the account must exist; a typed password is saved, otherwise
\* the hash is obtained. user_credential_state obtains it and hands out nothing.
VpnFile(c, typed) ==
    /\ Accept(c) /\ account # Nil
    /\ typed \in {Nil, account}          \* nobody mistypes
    /\ Goes(c, IF typed = Nil THEN "obtain" ELSE "save", typed)
    /\ UNCHANGED <<account, cached, file>>

CredentialState(c) ==
    /\ Accept(c) /\ Goes(c, "look", Nil)
    /\ UNCHANGED <<account, cached, file>>

Hand(c, h) == /\ file' = [hash |-> h, right |-> account] /\ Ends1(c)

SaveTyped(c) ==
    /\ clerk[c].at = "save"
    /\ cached' = clerk[c].hash /\ Hand(c, clerk[c].hash)
    /\ UNCHANGED <<account, acts>>

\* obtain_credential: the stored hash, or else what GetConfig shows, which is
\* saved in a statement of its own; with neither the route answers 409.
Obtain(c) ==
    /\ clerk[c].at \in {"obtain", "look"}
    /\ IF cached # Nil
       THEN IF clerk[c].at = "obtain" THEN Hand(c, cached)
            ELSE Ends1(c) /\ UNCHANGED file
       ELSE IF account = Nil THEN Ends1(c) /\ UNCHANGED file
       ELSE /\ Goes(c, IF clerk[c].at = "obtain" THEN "save" ELSE "keep",
                    account)
            /\ UNCHANGED file
    /\ UNCHANGED <<account, cached, acts>>

Keep(c) ==
    /\ clerk[c].at = "keep"
    /\ cached' = clerk[c].hash /\ Ends1(c)
    /\ UNCHANGED <<account, file, acts>>

\* Other tools create accounts as well.
MadeElsewhere(h) ==
    /\ Act /\ account = Nil
    /\ account' = h
    /\ UNCHANGED <<cached, clerk, file>>

CredNext ==
    \/ \E c \in Clerks :
           \/ \E h \in Hashes : CreateUser(c, h) \/ SetUser(c, h)
           \/ SetUser(c, Nil) \/ Remember(c)
           \/ DeleteUser(c) \/ ForgetUser(c)
           \/ \E typed \in Hashes \cup {Nil} : VpnFile(c, typed)
           \/ CredentialState(c) \/ SaveTyped(c) \/ Obtain(c) \/ Keep(c)
    \/ \E h \in Hashes : MadeElsewhere(h)

CredSpec == CredInit /\ [][CredNext]_credVars

CredTypeOK ==
    /\ account \in Hashes \cup {Nil} /\ cached \in Hashes \cup {Nil}
    /\ \A c \in Clerks : clerk[c].at \in
           {"free", "remember", "forget", "obtain", "save", "look", "keep"}
    /\ acts \in 0..MaxActs

\* A file the panel hands out carries the hash the server has for the account,
\* whoever created it and however often it was deleted and made again, as long
\* as requests follow one another and passwords change through the panel
\* (credentials.py:6).
FileSignsIn == file # Nil => file.hash = file.right
=============================================================================
