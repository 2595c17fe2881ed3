-------------------------------- MODULE Accounts --------------------------------
(***************************************************************************)
(* Who may use the panel, and the two secrets it keeps for itself          *)
(* (routers/auth.py, deps.py, security.py, secrets_store.py, manage.py):   *)
(* accounts, the signed tokens of their sessions, the key they are signed  *)
(* with and the key the VPN server's password is stored under.             *)
(*                                                                         *)
(* Two processes read the same database and the same key files: the panel, *)
(* which restarts and serves requests in threads of a pool, and the command*)
(* line.  Whoever remembers no key reads its file and makes one where none *)
(* is found; nothing keeps two from doing so at once, and the key is used  *)
(* whether or not it could be stored.                                      *)
(***************************************************************************)
EXTENDS Integers, FiniteSets

CONSTANTS
  Users, Passwords,
  NoPassword,      \* an account that does not exist
  Threads,         \* of the panel
  Inputs,          \* bound: requests and commands
  Restarts,        \* bound: how often a process ends
  Failures         \* bound: reads and writes of a key's file that fail

Processes == {"panel", "cli"}
Purposes  == {"session", "encryption"}

\* The command line is one thread, and signs no tokens.
Workers  == Threads \cup {"cli"}
Home(w)  == IF w = "cli" THEN "cli" ELSE "panel"
Needs(w) == IF w = "cli" THEN {"encryption"} ELSE Purposes

ASSUME AccountAssumption ==
  /\ NoPassword \notin Passwords /\ "cli" \notin Threads
  /\ Inputs \in Nat /\ Restarts \in Nat /\ Failures \in Nat

VARIABLES
  accounts,   \* PanelUser: the password each account has
  tokens,     \* the unexpired tokens browsers hold, by the key they carry
  files,      \* session.key and encryption.key: a key, 0 when not there
  caches,     \* the keys each process remembers (lru_cache)
  hand,       \* what a worker is doing about a key, and a key only it has
  keys,       \* keys generated so far
  sealed,     \* the key se_password was encrypted under, 0 when unset
  visit,      \* the request between what it checked and what it writes
  command,    \* the command line, likewise
  inputs, restarts, failures,
  astray      \* history: the keys made beside another, or whose file could
              \* not be read or written when it had to be

keyVars     == <<files, caches, hand, keys, sealed, failures, astray>>
accountVars == <<accounts, tokens, visit, command, inputs, restarts, keyVars>>

-----------------------------------------------------------------------------
Resting == [job |-> "none", user |-> NoPassword, password |-> NoPassword]
Empty   == [at |-> "none", key |-> 0]

AccountTypeOK ==
  /\ accounts \in [Users -> Passwords \cup {NoPassword}]
  /\ tokens \subseteq [user : Users, key : Nat]
  /\ keys \in [Purposes -> Nat] /\ sealed \in 0 .. keys["encryption"]
  /\ \A k \in Purposes :
       /\ files[k] \in 0 .. keys[k]
       /\ \A p \in Processes : caches[p][k] \in 0 .. keys[k]
       /\ \A w \in Workers : hand[w][k] \in [at : {"none", "seeks", "makes", "keeps"},
                                             key : 0 .. keys[k]]
       /\ astray[k] \subseteq 1 .. keys[k]
  /\ visit.job \in {"none", "setup", "change"}
  /\ command.job \in {"none", "insert", "update"}
  /\ inputs \in 0 .. Inputs /\ restarts \in 0 .. Restarts
  /\ failures \in 0 .. Failures

NoKeys == [k \in Purposes |-> 0]

AccountInit ==
  /\ accounts = [u \in Users |-> NoPassword] /\ tokens = {}
  /\ files = NoKeys /\ caches = [p \in Processes |-> NoKeys]
  /\ hand = [w \in Workers |-> [k \in Purposes |-> Empty]]
  /\ keys = NoKeys /\ sealed = 0 /\ astray = [k \in Purposes |-> {}]
  /\ visit = Resting /\ command = Resting
  /\ inputs = 0 /\ restarts = 0 /\ failures = 0

Input   == inputs < Inputs /\ inputs' = inputs + 1
Failure == failures < Failures /\ failures' = failures + 1
NoneFails == UNCHANGED failures

-----------------------------------------------------------------------------
(* _read_or_create behind an lru_cache, which computes without a lock: the   *)
(* first to return is remembered, and who returns later uses what it has.    *)

Making(k) == {w \in Workers : hand[w][k].at = "makes"}

Obtain(w, k, key) ==
  IF caches[Home(w)][k] \in {0, key}
  THEN /\ caches' = [caches EXCEPT ![Home(w)][k] = key]
       /\ hand' = [hand EXCEPT ![w][k] = Empty]
  ELSE /\ hand' = [hand EXCEPT ![w][k] = [at |-> "keeps", key |-> key]]
       /\ UNCHANGED caches

OnlyKeys == UNCHANGED <<accounts, tokens, sealed, visit, command, inputs, restarts>>

\* Nothing is remembered.
SeekKey(w, k) ==
  /\ hand[w][k].at = "none" /\ caches[Home(w)][k] = 0
  /\ hand' = [hand EXCEPT ![w][k].at = "seeks"]
  /\ UNCHANGED <<files, caches, keys, failures, astray>> /\ OnlyKeys

ReadKey(w, k) ==
  /\ hand[w][k].at = "seeks" /\ files[k] # 0
  /\ Obtain(w, k, files[k])
  /\ UNCHANGED <<files, keys, failures, astray>> /\ OnlyKeys

\* A key made while another worker makes one leaves both of no account.
Make(w, k, lost) ==
  /\ keys' = [keys EXCEPT ![k] = @ + 1]
  /\ hand' = [hand EXCEPT ![w][k] = [at |-> "makes", key |-> keys'[k]]]
  /\ astray' = [astray EXCEPT ![k] = @ \cup lost \cup
                  IF Making(k) = {} THEN {} ELSE {keys'[k]} \cup {hand[v][k].key : v \in Making(k)}]
  /\ UNCHANGED <<files, caches>> /\ OnlyKeys

\* Mutant of GenerateKey: who remembers no key makes one.
GenerateKeyAnyway(w, k) ==
  /\ hand[w][k].at = "seeks" /\ Make(w, k, {}) /\ NoneFails

\* The file is empty, or is just being written, or cannot be read.
GenerateKey(w, k) ==
  /\ hand[w][k].at = "seeks"
  /\ \/ (files[k] = 0 \/ Making(k) # {}) /\ Make(w, k, {}) /\ NoneFails
     \/ files[k] # 0 /\ Make(w, k, {files[k]}) /\ Failure

\* The write is best-effort: it may leave the file as it was or empty, and the
\* key goes on all the same.
WriteKey(w, k) ==
  /\ hand[w][k].at = "makes" /\ Obtain(w, k, hand[w][k].key)
  /\ \/ files' = [files EXCEPT ![k] = hand[w][k].key] /\ NoneFails /\ UNCHANGED astray
     \/ /\ files' \in {files, [files EXCEPT ![k] = 0]} /\ Failure
        /\ astray' = [astray EXCEPT ![k] = @ \cup {hand[w][k].key}]
  /\ UNCHANGED keys /\ OnlyKeys

\* A key only this worker has serves the call that asked for it; the next one
\* finds the remembered.
KeyOf(w, k) == IF hand[w][k].at = "keeps" THEN hand[w][k].key ELSE caches[Home(w)][k]
Let(w, k)   == [hand EXCEPT ![w][k] = IF @.at = "keeps" THEN Empty ELSE @]
UseKey(w, k) ==
  /\ hand[w][k].at \in {"none", "keeps"} /\ KeyOf(w, k) # 0
  /\ hand' = Let(w, k) /\ UNCHANGED <<files, caches, keys, failures, astray>>

\* It verified a token with it, or decrypted.
Forget(w, k) ==
  /\ hand[w][k].at = "keeps" /\ UseKey(w, k) /\ OnlyKeys

-----------------------------------------------------------------------------
(* Signing in *)

\* A thread signs, or checks the signature and finds the account.
Signs(w, u) ==
  /\ UseKey(w, "session") /\ UNCHANGED sealed
  /\ tokens' = tokens \cup {[user |-> u, key |-> KeyOf(w, "session")]}

Admits(w, t) ==
  /\ UseKey(w, "session") /\ UNCHANGED sealed
  /\ t.key = KeyOf(w, "session") /\ accounts[t.user] # NoPassword

\* The first account: counted first, hashed and inserted after.
SetupBegin(u, pw) ==
  /\ visit.job = "none" /\ Input
  /\ \A v \in Users : accounts[v] = NoPassword
  /\ visit' = [job |-> "setup", user |-> u, password |-> pw]
  /\ UNCHANGED <<accounts, tokens, command, restarts, keyVars>>

\* The name is unique: an account the command line made meanwhile stands.
SetupInsert(w) ==
  /\ visit.job = "setup"
  /\ IF accounts[visit.user] = NoPassword
     THEN /\ accounts' = [accounts EXCEPT ![visit.user] = visit.password]
          /\ Signs(w, visit.user)
     ELSE UNCHANGED <<accounts, tokens, keyVars>>
  /\ visit' = Resting
  /\ UNCHANGED <<command, inputs, restarts>>

Login(w, u, pw) ==
  /\ visit.job = "none" /\ Input
  /\ accounts[u] = pw /\ Signs(w, u)
  /\ UNCHANGED <<accounts, visit, command, restarts>>

\* The cookie goes; the token itself expires by time alone.
Expire(t) ==
  /\ tokens' = tokens \ {t}
  /\ UNCHANGED <<accounts, visit, command, inputs, restarts, keyVars>>

\* change_password: the current one is verified, the new one hashed and set.
ChangeBegin(w, t, current, pw) ==
  /\ visit.job = "none" /\ Input
  /\ Admits(w, t) /\ accounts[t.user] = current
  /\ visit' = [job |-> "change", user |-> t.user, password |-> pw]
  /\ UNCHANGED <<accounts, tokens, command, restarts>>

ChangeWrite ==
  /\ visit.job = "change"
  /\ accounts' = [accounts EXCEPT ![visit.user] = visit.password]
  /\ visit' = Resting
  /\ UNCHANGED <<tokens, command, inputs, restarts, keyVars>>

-----------------------------------------------------------------------------
(* The command line: "password", which looks the account up and then         *)
(* updates or inserts it, and "connect", which stores an encrypted password. *)

CommandBegin(u, pw) ==
  /\ command.job = "none" /\ Input
  /\ command' = [job |-> IF accounts[u] = NoPassword THEN "insert" ELSE "update",
                 user |-> u, password |-> pw]
  /\ UNCHANGED <<accounts, tokens, visit, restarts, keyVars>>

CommandWrite ==
  /\ command.job # "none"
  /\ accounts' = IF command.job = "insert" /\ accounts[command.user] # NoPassword
                 THEN accounts
                 ELSE [accounts EXCEPT ![command.user] = command.password]
  /\ command' = Resting
  /\ UNCHANGED <<tokens, visit, inputs, restarts, keyVars>>

\* encrypt, by a "connect" or by the Connect screen.
Seal(w) ==
  /\ Input /\ UseKey(w, "encryption")
  /\ sealed' = KeyOf(w, "encryption")
  /\ UNCHANGED <<accounts, tokens, visit, command, restarts>>

\* The keys a process encrypts and decrypts, signs and verifies with.
InUse(p, k) == ({caches[p][k]} \cup {hand[w][k].key : w \in
                  {v \in Workers : Home(v) = p /\ hand[v][k].at = "keeps"}}) \ {0}

\* A process ends wherever it is and its memory with it.
Ends(p) ==
  /\ restarts < Restarts /\ restarts' = restarts + 1
  /\ caches' = [caches EXCEPT ![p] = NoKeys]
  /\ hand' = [w \in Workers |-> IF Home(w) = p THEN [k \in Purposes |-> Empty] ELSE hand[w]]
  /\ visit' = IF p = "panel" THEN Resting ELSE visit
  /\ command' = IF p = "cli" THEN Resting ELSE command
  /\ UNCHANGED <<accounts, tokens, files, keys, sealed, inputs, failures, astray>>

AccountNext ==
  \/ \E w \in Workers :
       \/ \E k \in Needs(w) : \/ SeekKey(w, k) \/ ReadKey(w, k) \/ GenerateKey(w, k)
                              \/ WriteKey(w, k) \/ Forget(w, k)
       \/ Seal(w)
  \/ \E w \in Threads : \/ SetupInsert(w)
                        \/ \E u \in Users, pw \in Passwords : Login(w, u, pw)
                        \/ \E t \in tokens, old, new \in Passwords : ChangeBegin(w, t, old, new)
  \/ \E u \in Users, pw \in Passwords : SetupBegin(u, pw) \/ CommandBegin(u, pw)
  \/ \E t \in tokens : Expire(t)
  \/ ChangeWrite \/ CommandWrite
  \/ \E p \in Processes : Ends(p)

AccountSpec == AccountInit /\ [][AccountNext]_accountVars

-----------------------------------------------------------------------------
(* Properties *)

\* The key se_password was encrypted under is the key on disk, and no process
\* uses another: what is stored stays readable over every restart. Except for
\* the keys the code says are on no disk (secrets_store.py:42-45), and those
\* that two workers made beside each other.
SealedReadable ==
  /\ sealed \notin {0} \cup astray["encryption"] => files["encryption"] = sealed
  /\ \A p \in Processes : \A key \in InUse(p, "encryption") :
       sealed \notin {0, key} => {sealed, key} \cap astray["encryption"] # {}

\* "If it changes, all of that becomes unreadable -- so it must be generated
\* once and then never move" (secrets_store.py:8-11).
SealedWithStored == sealed # 0 => files["encryption"] = sealed

\* A token given out is honoured until it expires, by the panel that signed it
\* and by the one started after it, with the same exceptions.
TokensHonoured ==
  \A t \in tokens :
    /\ accounts[t.user] # NoPassword
    /\ t.key \notin astray["session"] =>
         /\ files["session"] = t.key
         /\ InUse("panel", "session") \subseteq {t.key} \cup astray["session"]
=================================================================================
