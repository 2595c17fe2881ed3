----------------------------- MODULE PanelProofs -----------------------------
(***************************************************************************)
(* The panel's own parts, for any users, passwords, versions and number of *)
(* events: its keys and tokens, the updater, and, with what AcmeProofs     *)
(* shows of the exchange with the authority, the types of all three.       *)
(***************************************************************************)
EXTENDS MCPanel, AcmeProofs, TLAPS

(*************************** accounts and keys ****************************)
(* What was sealed stays readable and a token given out is honoured,       *)
(* because every key in use is the one on disk unless something went wrong *)
(* while it was made: a key is made where the file has none, and a second  *)
(* one only beside the first.                                              *)
(***************************************************************************)

HandStates == {"none", "seeks", "makes", "keeps"}
Drafts(j) == [job : j, user : Users, password : Passwords] \cup {Resting}

AccountInv ==
  /\ accounts \in [Users -> Passwords \cup {NoPassword}]
  /\ tokens \subseteq [user : Users, key : Nat]
  /\ \A t \in tokens : accounts[t.user] # NoPassword
  /\ visit \in Drafts({"setup", "change"})
  /\ command \in Drafts({"insert", "update"})
  /\ inputs \in 0 .. Inputs /\ restarts \in 0 .. Restarts

KeyTypes ==
  /\ keys \in [Purposes -> Nat] /\ files \in [Purposes -> Nat]
  /\ caches \in [Processes -> [Purposes -> Nat]]
  /\ hand \in [Workers -> [Purposes -> [at : HandStates, key : Nat]]]
  /\ astray \in [Purposes -> SUBSET (Nat \ {0})]
  /\ sealed \in Nat /\ failures \in 0 .. Failures

\* The numbers of the keys.
Known(k) == 0 .. keys[k]
KeyBounds ==
  \A k \in Purposes :
    /\ files[k] \in Known(k) /\ astray[k] \subseteq Known(k)
    /\ \A p \in Processes : caches[p][k] \in Known(k)
    /\ \A w \in Workers : hand[w][k].key \in Known(k)

\* A key is made where the file has none or one that no longer counts, and of
\* two that are made at once neither counts.
MakeInv ==
  \A k \in Purposes :
    /\ \A w \in Making(k) : files[k] \in {0} \cup astray[k] /\ hand[w][k].key # 0
    /\ \A w \in Making(k) : \A v \in Making(k) \ {w} : hand[w][k].key \in astray[k]

\* A key in use is the one on disk.
Held(k, key) == key \in {0, files[k]} \cup astray[k]
UseInv ==
  /\ \A k \in Purposes : /\ \A p \in Processes : Held(k, caches[p][k])
                         /\ \A w \in Workers : hand[w][k].at = "keeps" => Held(k, hand[w][k].key)
  /\ Held("encryption", sealed) /\ sealed \in Known("encryption")
  /\ \A t \in tokens : t.key # 0 /\ Held("session", t.key)

RingInv  == KeyTypes /\ KeyBounds /\ MakeInv /\ UseInv
VaultInv == AccountInv /\ RingInv

LEMMA VaultBegins == AccountInit => VaultInv
<1> SUFFICES ASSUME AccountInit PROVE VaultInv
  OBVIOUS
<1>1. AccountInv
  BY AccountAssumption DEF AccountInit, AccountInv, Drafts
<1>2. KeyTypes
  BY AccountAssumption DEF AccountInit, NoKeys, Empty, KeyTypes, HandStates
<1>3. KeyBounds
  BY DEF AccountInit, NoKeys, Empty, KeyBounds, Known
<1>4. MakeInv /\ UseInv
  BY DEF AccountInit, NoKeys, Empty, MakeInv, Making, UseInv, Held, Known, Purposes
<1> QED
  BY <1>1, <1>2, <1>3, <1>4 DEF VaultInv, RingInv

-----------------------------------------------------------------------------
(* Keys *)

LEMMA InHand ==
  ASSUME UseInv
  PROVE  /\ \A j \in Purposes, p \in Processes : caches[p][j] \in {0, files[j]} \cup astray[j]
         /\ \A j \in Purposes, v \in Workers :
              hand[v][j].at = "keeps" => hand[v][j].key \in {0, files[j]} \cup astray[j]
<1>1. \A j \in Purposes, p \in Processes : Held(j, caches[p][j])
  BY DEF UseInv
<1>2. \A j \in Purposes, v \in Workers : hand[v][j].at = "keeps" => Held(j, hand[v][j].key)
  BY DEF UseInv
<1> QED
  BY <1>1, <1>2 DEF Held

\* A key that counts for what is on disk once the file is as it will be.
Keeps(k, key) ==
  /\ files' \in [Purposes -> Nat] /\ files'[k] \in Known(k)
  /\ \A j \in Purposes \ {k} : files'[j] = files[j] /\ astray'[j] = astray[j]
  /\ astray' \in [Purposes -> SUBSET (Nat \ {0})] /\ astray'[k] \subseteq Known(k)
  /\ astray[k] \subseteq astray'[k] /\ failures' \in 0 .. Failures
  /\ \A x \in {0, key, files[k]} \cup astray[k] : x \in {0, files'[k]} \cup astray'[k]

\* What a worker finds in the file or has made and written: it is remembered,
\* or kept by the worker.
LEMMA ObtainStep ==
  ASSUME RingInv, NEW w \in Workers, NEW k \in Purposes, NEW key \in Nat,
         Obtain(w, k, key), key \in Known(k), UNCHANGED <<keys, sealed, tokens>>,
         Keeps(k, key), \A v \in Making(k) \ {w} : files'[k] \in {0} \cup astray'[k]
  PROVE  RingInv'
<1> DEFINE home == Home(w)
           kept == [at |-> "keeps", key |-> key]
<1>1. /\ home \in Processes /\ caches \in [Processes -> [Purposes -> Nat]]
      /\ hand \in [Workers -> [Purposes -> [at : HandStates, key : Nat]]]
      /\ keys \in [Purposes -> Nat]
  BY DEF Home, Processes, RingInv, KeyTypes
<1>2. /\ Empty \in [at : HandStates, key : Nat] /\ Empty.at = "none" /\ Empty.key = 0
      /\ kept \in [at : HandStates, key : Nat] /\ kept.at = "keeps" /\ kept.key = key
  BY DEF Empty, HandStates
<1>a. /\ caches' = caches \/ caches' = [caches EXCEPT ![home][k] = key]
      /\ hand' = [hand EXCEPT ![w][k] = Empty] \/ hand' = [hand EXCEPT ![w][k] = kept]
  BY DEF Obtain
<1> HIDE DEF home, kept
<1>b. KeyTypes /\ KeyBounds /\ MakeInv /\ UseInv
  BY DEF RingInv
<1>3. /\ caches' \in [Processes -> [Purposes -> Nat]]
      /\ \A p \in Processes, j \in Purposes : caches'[p][j] = caches[p][j] \/ (j = k /\ caches'[p][j] = key)
  <2>1. CASE caches' = caches
    BY <1>1, <2>1
  <2>2. CASE caches' = [caches EXCEPT ![home][k] = key]
    BY <1>1, <2>2
  <2> QED
    BY <1>a, <2>1, <2>2
<1>4. /\ hand' \in [Workers -> [Purposes -> [at : HandStates, key : Nat]]]
      /\ \A v \in Workers, j \in Purposes : v # w \/ j # k => hand'[v][j] = hand[v][j]
      /\ hand'[w][k] = Empty \/ hand'[w][k] = kept
  <2>1. CASE hand' = [hand EXCEPT ![w][k] = Empty]
    BY <1>1, <1>2, <2>1
  <2>2. CASE hand' = [hand EXCEPT ![w][k] = kept]
    BY <1>1, <1>2, <2>2
  <2> QED
    BY <1>a, <2>1, <2>2
<1>5. \A j \in Purposes :
        /\ files'[j] \in Nat /\ files'[j] \in Known(j) /\ astray'[j] \subseteq Known(j)
        /\ \A x \in {0, files[j]} \cup astray[j] : x \in {0, files'[j]} \cup astray'[j]
  <2> SUFFICES ASSUME NEW j \in Purposes
               PROVE  /\ files'[j] \in Nat /\ files'[j] \in Known(j) /\ astray'[j] \subseteq Known(j)
                      /\ \A x \in {0, files[j]} \cup astray[j] : x \in {0, files'[j]} \cup astray'[j]
    OBVIOUS
  <2>1. CASE j = k
    BY <2>1 DEF Keeps
  <2>2. CASE j # k
    <3>1. files'[j] = files[j] /\ astray'[j] = astray[j]
      BY <2>2 DEF Keeps
    <3> QED
      BY <1>b, <3>1 DEF KeyTypes, KeyBounds
  <2> QED
    BY <2>1, <2>2
<1>6. key \in {0, files'[k]} \cup astray'[k]
  BY DEF Keeps
<1>7. KeyTypes'
  BY <1>b, <1>3, <1>4 DEF KeyTypes, Keeps
<1>8. KeyBounds'
  <2>1. \A j \in Purposes : Known(j)' = Known(j) /\ 0 \in Known(j)
    BY <1>1 DEF Known
  <2>2. \A j \in Purposes, p \in Processes : caches'[p][j] \in Known(j)
    BY <1>b, <1>3 DEF KeyBounds
  <2>3. \A j \in Purposes, v \in Workers : hand[v][j].key \in Known(j)
    BY <1>b DEF KeyBounds
  <2>4. hand'[w][k].key \in Known(k)
    BY <1>2, <1>4, <2>1
  <2>5. \A j \in Purposes, v \in Workers : hand'[v][j].key \in Known(j)
    BY <1>4, <2>3, <2>4
  <2> QED
    BY <1>5, <2>1, <2>2, <2>5 DEF KeyBounds
<1>9. MakeInv'
  <2>1. \A j \in Purposes : \A v \in Making(j)' :
          v \in Making(j) /\ (j = k => v # w) /\ hand'[v][j] = hand[v][j]
    BY <1>2, <1>4 DEF Making
  <2>2. \A j \in Purposes \ {k} : files'[j] = files[j] /\ astray'[j] = astray[j]
    BY DEF Keeps
  <2>3. astray[k] \subseteq astray'[k]
    BY DEF Keeps
  <2>4. \A j \in Purposes : \A v \in Making(j)' : files'[j] \in {0} \cup astray'[j] /\ hand'[v][j].key # 0
    BY <1>b, <2>1, <2>2 DEF MakeInv
  <2>5. \A j \in Purposes : \A v \in Making(j)' : \A u \in Making(j)' \ {v} : hand'[v][j].key \in astray'[j]
    BY <1>b, <2>1, <2>2, <2>3 DEF MakeInv
  <2> QED
    BY <2>4, <2>5 DEF MakeInv
<1>10. UseInv'
  <2>1. /\ \A j \in Purposes, p \in Processes : caches[p][j] \in {0, files[j]} \cup astray[j]
        /\ \A j \in Purposes, v \in Workers :
             hand[v][j].at = "keeps" => hand[v][j].key \in {0, files[j]} \cup astray[j]
    BY <1>b, InHand
  <2>2. \A j \in Purposes, p \in Processes : caches'[p][j] \in {0, files'[j]} \cup astray'[j]
    BY <1>3, <1>5, <1>6, <2>1
  <2>3. \A j \in Purposes, v \in Workers :
          hand'[v][j].at = "keeps" => hand'[v][j].key \in {0, files'[j]} \cup astray'[j]
    <3> SUFFICES ASSUME NEW j \in Purposes, NEW v \in Workers, hand'[v][j].at = "keeps"
                 PROVE  hand'[v][j].key \in {0, files'[j]} \cup astray'[j]
      OBVIOUS
    <3>1. CASE v = w /\ j = k
      BY <1>2, <1>4, <1>6, <3>1
    <3>2. CASE ~(v = w /\ j = k)
      <4>1. hand'[v][j] = hand[v][j]
        BY <1>4, <3>2
      <4> QED
        BY <4>1, <1>5, <2>1
    <3> QED
      BY <3>1, <3>2
  <2>4. sealed' = sealed /\ Held("encryption", sealed)' /\ (sealed \in Known("encryption"))'
    <3>1. "encryption" \in Purposes /\ sealed \in {0, files["encryption"]} \cup astray["encryption"]
          /\ sealed \in 0 .. keys["encryption"]
      BY <1>b DEF UseInv, Held, Known, Purposes
    <3>2. sealed \in {0, files'["encryption"]} \cup astray'["encryption"]
      BY <1>5, <3>1
    <3> QED
      BY <3>1, <3>2 DEF Held, Known
  <2>5. \A t \in tokens' : t.key # 0 /\ t.key \in {0, files'["session"]} \cup astray'["session"]
    <3>1. \A t \in tokens : t.key # 0 /\ t.key \in {0, files["session"]} \cup astray["session"]
      BY <1>b DEF UseInv, Held
    <3>2. "session" \in Purposes /\ tokens' = tokens
      BY DEF Purposes
    <3> QED
      BY <1>5, <3>1, <3>2
  <2> QED
    BY <2>2, <2>3, <2>4, <2>5 DEF UseInv, Held
<1> QED
  BY <1>7, <1>8, <1>9, <1>10 DEF RingInv

LEMMA ReadStep ==
  ASSUME RingInv, NEW w \in Workers, NEW k \in Purposes, ReadKey(w, k)
  PROVE  RingInv'
<1>1. /\ files[k] \in Nat /\ Obtain(w, k, files[k]) /\ files[k] \in Known(k)
      /\ UNCHANGED <<files, keys, failures, astray, tokens, sealed>>
  BY DEF ReadKey, OnlyKeys, RingInv, KeyTypes, KeyBounds
<1>2. /\ files \in [Purposes -> Nat] /\ astray \in [Purposes -> SUBSET (Nat \ {0})]
      /\ astray[k] \subseteq Known(k) /\ failures \in 0 .. Failures
      /\ \A v \in Making(k) \ {w} : files[k] \in {0} \cup astray[k]
  BY DEF RingInv, KeyTypes, KeyBounds, MakeInv
<1>3. Keeps(k, files[k])
  BY <1>1, <1>2 DEF Keeps, RingInv, KeyTypes
<1> QED
  BY <1>1, <1>2, <1>3, ObtainStep

LEMMA WriteStep ==
  ASSUME RingInv, NEW w \in Workers, NEW k \in Purposes, WriteKey(w, k)
  PROVE  RingInv'
<1> DEFINE key == hand[w][k].key
<1>1. /\ key \in Nat \ {0} /\ key \in Known(k) /\ Obtain(w, k, key)
      /\ UNCHANGED <<keys, tokens, sealed>> /\ w \in Making(k)
      /\ files[k] \in {0} \cup astray[k] /\ files[k] \in Known(k) /\ 0 \in Known(k)
  BY DEF WriteKey, OnlyKeys, RingInv, KeyTypes, KeyBounds, MakeInv, Making, Known
<1>2. /\ files \in [Purposes -> Nat] /\ astray \in [Purposes -> SUBSET (Nat \ {0})]
      /\ astray[k] \subseteq Known(k) /\ failures \in 0 .. Failures
      /\ \A v \in Making(k) \ {w} : key \in astray[k] /\ files[k] \in {0} \cup astray[k]
  BY <1>1 DEF RingInv, KeyTypes, KeyBounds, MakeInv
<1>3. \/ files' = [files EXCEPT ![k] = key] /\ UNCHANGED <<failures, astray>>
      \/ /\ files' \in {files, [files EXCEPT ![k] = 0]} /\ failures' \in 0 .. Failures
         /\ astray' = [astray EXCEPT ![k] = @ \cup {key}]
  BY <1>2, AccountAssumption DEF WriteKey, NoneFails, Failure
<1> HIDE DEF key
<1>4. CASE files' = [files EXCEPT ![k] = key] /\ UNCHANGED <<failures, astray>>
  <2>1. files' \in [Purposes -> Nat] /\ files'[k] = key /\ \A j \in Purposes \ {k} : files'[j] = files[j]
    BY <1>1, <1>2, <1>4
  <2>2. Keeps(k, key)
    BY <1>1, <1>2, <1>4, <2>1 DEF Keeps
  <2> QED
    BY <1>1, <1>2, <1>4, <2>1, <2>2, ObtainStep
<1>5. CASE /\ files' \in {files, [files EXCEPT ![k] = 0]} /\ failures' \in 0 .. Failures
           /\ astray' = [astray EXCEPT ![k] = @ \cup {key}]
  <2>1. /\ files' \in [Purposes -> Nat] /\ files'[k] \in {0, files[k]}
        /\ \A j \in Purposes \ {k} : files'[j] = files[j] /\ astray'[j] = astray[j]
        /\ astray' \in [Purposes -> SUBSET (Nat \ {0})] /\ astray'[k] = astray[k] \cup {key}
    BY <1>1, <1>2, <1>5
  <2>2. Keeps(k, key)
    BY <1>1, <1>2, <1>5, <2>1 DEF Keeps
  <2> QED
    BY <1>1, <1>2, <1>5, <2>1, <2>2, ObtainStep
<1> QED
  BY <1>3, <1>4, <1>5

LEMMA GenerateStep ==
  ASSUME RingInv, NEW w \in Workers, NEW k \in Purposes, GenerateKey(w, k)
  PROVE  RingInv'
<1> DEFINE old  == keys[k]
           made == [at |-> "makes", key |-> old + 1]
           both == IF Making(k) = {} THEN {} ELSE {old + 1} \cup {hand[v][k].key : v \in Making(k)}
<1>1. /\ KeyTypes /\ KeyBounds /\ MakeInv /\ UseInv /\ old \in Nat
      /\ \A v \in Making(k) : hand[v][k].key \in Nat \ {0} /\ hand[v][k].key \in Known(k)
      /\ w \notin Making(k)
  BY DEF RingInv, KeyTypes, KeyBounds, MakeInv, Making, GenerateKey
<1>2. PICK lost \in {{}, {files[k]}} :
        /\ Make(w, k, lost) /\ failures' \in 0 .. Failures
        /\ files[k] \in {0} \cup lost \cup astray[k] /\ 0 \notin lost
  BY <1>1, AccountAssumption DEF GenerateKey, NoneFails, Failure, KeyTypes, MakeInv
<1>3. /\ keys' = [keys EXCEPT ![k] = old + 1] /\ hand' = [hand EXCEPT ![w][k] = made]
      /\ astray' = [astray EXCEPT ![k] = @ \cup lost \cup both]
      /\ UNCHANGED <<files, caches, tokens, sealed>>
  BY <1>1, <1>2 DEF Make, OnlyKeys, KeyTypes
<1>4. /\ both \subseteq Nat \ {0} /\ both \subseteq 0 .. old + 1 /\ lost \subseteq Nat \ {0}
      /\ lost \subseteq Known(k) /\ made \in [at : HandStates, key : Nat]
  BY <1>1, <1>2 DEF Known, KeyTypes, KeyBounds, HandStates
<1>5. Making(k) # {} => old + 1 \in both /\ \A v \in Making(k) : hand[v][k].key \in both
  OBVIOUS
<1>6. made.at = "makes" /\ made.key = old + 1
  OBVIOUS
<1> HIDE DEF both, made
<1>7. /\ keys' \in [Purposes -> Nat] /\ keys'[k] = old + 1
      /\ \A j \in Purposes \ {k} : keys'[j] = keys[j] /\ astray'[j] = astray[j]
      /\ astray' \in [Purposes -> SUBSET (Nat \ {0})] /\ astray'[k] = astray[k] \cup lost \cup both
      /\ hand' \in [Workers -> [Purposes -> [at : HandStates, key : Nat]]] /\ hand'[w][k] = made
      /\ \A v \in Workers, j \in Purposes : v # w \/ j # k => hand'[v][j] = hand[v][j]
  <2>1. keys' \in [Purposes -> Nat] /\ keys'[k] = old + 1 /\ \A j \in Purposes \ {k} : keys'[j] = keys[j]
    BY <1>1, <1>3 DEF KeyTypes
  <2>2. /\ astray' \in [Purposes -> SUBSET (Nat \ {0})] /\ astray'[k] = astray[k] \cup lost \cup both
        /\ \A j \in Purposes \ {k} : astray'[j] = astray[j]
    BY <1>1, <1>3, <1>4 DEF KeyTypes
  <2>3. /\ hand' \in [Workers -> [Purposes -> [at : HandStates, key : Nat]]] /\ hand'[w][k] = made
        /\ \A v \in Workers, j \in Purposes : v # w \/ j # k => hand'[v][j] = hand[v][j]
    BY <1>1, <1>3, <1>4 DEF KeyTypes
  <2> QED
    BY <2>1, <2>2, <2>3
<1>8. KeyTypes'
  BY <1>1, <1>2, <1>3, <1>7 DEF KeyTypes
<1>9. KeyBounds'
  <2>1. \A j \in Purposes : Known(j) \subseteq Known(j)'
    <3>1. \A j \in Purposes : keys[j] \in Nat /\ keys'[j] \in {keys[j], keys[j] + 1}
      BY <1>1, <1>7 DEF KeyTypes
    <3> QED
      BY <3>1 DEF Known
  <2>2. Known(k)' = 0 .. old + 1 /\ made.key \in 0 .. old + 1
    BY <1>1, <1>6, <1>7 DEF Known
  <2>3. \A j \in Purposes : astray'[j] \subseteq Known(j)'
    BY <1>1, <1>4, <1>7, <2>1, <2>2 DEF KeyBounds
  <2>4. \A j \in Purposes, v \in Workers : hand'[v][j].key \in Known(j)'
    BY <1>1, <1>7, <2>1, <2>2 DEF KeyBounds
  <2> QED
    BY <1>1, <1>3, <2>1, <2>3, <2>4 DEF KeyBounds
<1>10. MakeInv'
  <2>1. Making(k)' \subseteq Making(k) \cup {w} /\ \A j \in Purposes \ {k} : Making(j)' = Making(j)
    BY <1>7 DEF Making
  <2>2. \A v \in Making(k) : files[k] \in {0} \cup astray[k] /\ hand'[v][k] = hand[v][k]
    BY <1>1, <1>7 DEF MakeInv, Making
  <2>3. \A v \in Making(k)' : files'[k] \in {0} \cup astray'[k] /\ hand'[v][k].key # 0
    BY <1>1, <1>2, <1>3, <1>6, <1>7, <2>1, <2>2
  <2>4. \A v \in Making(k)' : \A u \in Making(k)' \ {v} : hand'[v][k].key \in astray'[k]
    BY <1>1, <1>5, <1>6, <1>7, <2>1, <2>2
  <2>5. \A j \in Purposes \ {k} :
          \A v \in Making(j)' : /\ files'[j] \in {0} \cup astray'[j] /\ hand'[v][j].key # 0
                                /\ \A u \in Making(j)' \ {v} : hand'[v][j].key \in astray'[j]
    BY <1>1, <1>3, <1>7, <2>1 DEF MakeInv, Making
  <2> QED
    BY <2>3, <2>4, <2>5 DEF MakeInv
<1>11. UseInv'
  <2>1. \A j \in Purposes : astray[j] \subseteq astray'[j] /\ files'[j] = files[j]
    BY <1>3, <1>7
  <2>2. \A j \in Purposes : \A x : Held(j, x) => Held(j, x)'
    BY <2>1 DEF Held
  <2>3. sealed' \in Known("encryption")'
    BY <1>1, <1>3, <1>7 DEF UseInv, Known, KeyTypes, Purposes
  <2>4. \A v \in Workers, j \in Purposes : hand'[v][j].at = "keeps" => hand'[v][j] = hand[v][j]
    BY <1>6, <1>7
  <2>5. Held("encryption", sealed)' /\ \A t \in tokens' : t.key # 0 /\ Held("session", t.key)'
    BY <1>1, <1>3, <2>2 DEF UseInv, Purposes, Held
  <2>6. /\ \A j \in Purposes, p \in Processes : caches'[p][j] \in {0, files'[j]} \cup astray'[j]
        /\ \A j \in Purposes, v \in Workers :
             hand'[v][j].at = "keeps" => hand'[v][j].key \in {0, files'[j]} \cup astray'[j]
    <3>1. /\ \A j \in Purposes, p \in Processes : caches[p][j] \in {0, files[j]} \cup astray[j]
          /\ \A j \in Purposes, v \in Workers :
               hand[v][j].at = "keeps" => hand[v][j].key \in {0, files[j]} \cup astray[j]
      BY <1>1, InHand
    <3>2. \A j \in Purposes, p \in Processes : caches'[p][j] \in {0, files'[j]} \cup astray'[j]
      BY <1>3, <2>1, <3>1
    <3>3. ASSUME NEW j \in Purposes, NEW v \in Workers, hand'[v][j].at = "keeps"
          PROVE  hand'[v][j].key \in {0, files'[j]} \cup astray'[j]
      BY <2>1, <2>4, <3>1, <3>3
    <3> QED
      BY <3>2, <3>3
  <2> QED
    BY <2>3, <2>4, <2>5, <2>6 DEF UseInv, Held
<1> QED
  BY <1>8, <1>9, <1>10, <1>11 DEF RingInv

\* A worker that lets go of a key, or begins to look for one.
LEMMA LetStep ==
  ASSUME RingInv, NEW w \in Workers, NEW k \in Purposes, NEW held \in [at : HandStates, key : Nat],
         hand' = [hand EXCEPT ![w][k] = held], held.at \in {"none", "seeks"}, held.key \in Known(k),
         UNCHANGED <<files, caches, keys, failures, astray>>,
         sealed' = sealed \/ (Held("encryption", sealed') /\ sealed' \in Known("encryption")),
         \A t \in tokens' : t \in tokens \/ (t.key # 0 /\ Held("session", t.key))
  PROVE  RingInv'
<1>1. KeyTypes /\ KeyBounds /\ MakeInv /\ UseInv
  BY DEF RingInv
<1>2. /\ hand' \in [Workers -> [Purposes -> [at : HandStates, key : Nat]]] /\ hand'[w][k] = held
      /\ \A v \in Workers, j \in Purposes : v # w \/ j # k => hand'[v][j] = hand[v][j]
  BY <1>1 DEF KeyTypes
<1>3. sealed' \in Nat /\ sealed' \in Known("encryption") /\ Held("encryption", sealed')
  BY <1>1 DEF KeyTypes, UseInv, Known, Purposes
<1>4. KeyTypes'
  BY <1>1, <1>2, <1>3 DEF KeyTypes
<1>5. KeyBounds'
  BY <1>1, <1>2 DEF KeyBounds, Known
<1>6. MakeInv'
  <2>1. \A j \in Purposes : \A v \in Making(j)' : v \in Making(j) /\ hand'[v][j] = hand[v][j]
    BY <1>2 DEF Making
  <2> QED
    BY <1>1, <2>1 DEF MakeInv
<1>7. UseInv'
  <2>1. \A v \in Workers, j \in Purposes : hand'[v][j].at = "keeps" => hand'[v][j] = hand[v][j]
    BY <1>2
  <2> QED
    BY <1>1, <1>3, <2>1 DEF UseInv, Held, Known
<1> QED
  BY <1>4, <1>5, <1>6, <1>7 DEF RingInv

\* What is used is the key on disk, unless something went wrong with it.
LEMMA UsedIsHeld ==
  ASSUME RingInv, NEW w \in Workers, NEW k \in Purposes, UseKey(w, k)
  PROVE  KeyOf(w, k) \in Known(k) \ {0} /\ KeyOf(w, k) \in Nat /\ Held(k, KeyOf(w, k))
<1>1. Home(w) \in Processes /\ KeyOf(w, k) # 0
  BY DEF Home, Processes, UseKey
<1> QED
  BY <1>1 DEF KeyOf, RingInv, KeyTypes, KeyBounds, UseInv

LEMMA UseStep ==
  ASSUME RingInv, NEW w \in Workers, NEW k \in Purposes, UseKey(w, k),
         \/ UNCHANGED sealed
         \/ sealed' = KeyOf(w, k) /\ k = "encryption",
         \/ tokens' \subseteq tokens
         \/ k = "session" /\ \E u \in Users : tokens' = tokens \cup {[user |-> u, key |-> KeyOf(w, k)]}
  PROVE  RingInv'
<1> DEFINE held == IF hand[w][k].at = "keeps" THEN Empty ELSE hand[w][k]
<1>1. /\ hand \in [Workers -> [Purposes -> [at : HandStates, key : Nat]]]
      /\ hand[w][k].at \in {"none", "keeps"} /\ hand[w][k].key \in Known(k) /\ 0 \in Known(k)
  BY DEF UseKey, RingInv, KeyTypes, KeyBounds, Known
<1>2. /\ held \in [at : HandStates, key : Nat] /\ held.at \in {"none", "seeks"}
      /\ held.key \in Known(k)
  BY <1>1 DEF Empty, HandStates
<1>3. hand' = [hand EXCEPT ![w][k] = held] /\ UNCHANGED <<files, caches, keys, failures, astray>>
  BY <1>1 DEF UseKey, Let
<1>4. \A t \in tokens' : t \in tokens \/ (t.key # 0 /\ Held("session", t.key))
  BY UsedIsHeld
<1>5. sealed' = sealed \/ (Held("encryption", sealed') /\ sealed' \in Known("encryption"))
  BY UsedIsHeld
<1> HIDE DEF held
<1> QED
  BY <1>2, <1>3, <1>4, <1>5, LetStep

LEMMA SeekStep ==
  ASSUME RingInv, NEW w \in Workers, NEW k \in Purposes, SeekKey(w, k)
  PROVE  RingInv'
<1> DEFINE held == [hand[w][k] EXCEPT !.at = "seeks"]
<1>1. hand \in [Workers -> [Purposes -> [at : HandStates, key : Nat]]] /\ hand[w][k].key \in Known(k)
  BY DEF RingInv, KeyTypes, KeyBounds
<1>2. hand[w][k] \in [at : HandStates, key : Nat]
  BY <1>1
<1>3. held \in [at : HandStates, key : Nat] /\ held.at = "seeks" /\ held.key = hand[w][k].key
  BY <1>2 DEF HandStates
<1>4. hand' = [hand EXCEPT ![w][k] = held] /\ UNCHANGED <<files, caches, keys, failures, astray, sealed, tokens>>
  BY <1>1 DEF SeekKey, OnlyKeys
<1> HIDE DEF held
<1> QED
  BY <1>1, <1>3, <1>4, LetStep

\* What does not touch the keys, but for tokens that go.
LEMMA RingStays ==
  ASSUME RingInv, UNCHANGED keyVars, tokens' \subseteq tokens
  PROVE  RingInv'
BY DEF RingInv, keyVars, KeyTypes, KeyBounds, Known, MakeInv, Making, UseInv, Held

LEMMA EndStep ==
  ASSUME VaultInv, NEW p \in Processes, Ends(p)
  PROVE  VaultInv'
<1>1. /\ caches' = [caches EXCEPT ![p] = NoKeys]
      /\ hand' = [w \in Workers |-> IF Home(w) = p THEN [k \in Purposes |-> Empty] ELSE hand[w]]
      /\ UNCHANGED <<accounts, tokens, files, keys, sealed, inputs, failures, astray>>
  BY DEF Ends
<1>2. AccountInv'
  <2>1. restarts' \in 0 .. Restarts
    BY AccountAssumption DEF Ends, VaultInv, AccountInv
  <2>2. visit' \in Drafts({"setup", "change"}) /\ command' \in Drafts({"insert", "update"})
    BY DEF Ends, VaultInv, AccountInv, Drafts
  <2> QED
    BY <1>1, <2>1, <2>2 DEF VaultInv, AccountInv
<1>3. KeyTypes /\ KeyBounds /\ MakeInv /\ UseInv
  BY DEF VaultInv, RingInv
<1>4. /\ Empty \in [at : HandStates, key : Nat] /\ Empty.at = "none" /\ Empty.key = 0
      /\ NoKeys \in [Purposes -> Nat] /\ \A k \in Purposes : NoKeys[k] = 0
  BY DEF Empty, NoKeys, HandStates
<1>5. /\ \A q \in Processes, k \in Purposes : caches'[q][k] = IF q = p THEN 0 ELSE caches[q][k]
      /\ \A w \in Workers, k \in Purposes : hand'[w][k] = IF Home(w) = p THEN Empty ELSE hand[w][k]
      /\ caches' \in [Processes -> [Purposes -> Nat]]
      /\ hand' \in [Workers -> [Purposes -> [at : HandStates, key : Nat]]]
  BY <1>1, <1>3, <1>4 DEF KeyTypes
<1>6. KeyTypes'
  BY <1>1, <1>3, <1>5 DEF KeyTypes
<1>7. KeyBounds'
  <2>1. \A k \in Purposes : 0 \in Known(k) /\ Known(k)' = Known(k)
    BY <1>1, <1>3 DEF Known, KeyTypes
  <2> QED
    BY <1>1, <1>3, <1>4, <1>5, <2>1 DEF KeyBounds
<1>8. MakeInv'
  <2>1. \A k \in Purposes : \A w \in Making(k)' : w \in Making(k) /\ hand'[w][k] = hand[w][k]
    BY <1>4, <1>5 DEF Making
  <2> QED
    BY <1>1, <1>3, <2>1 DEF MakeInv
<1>9. UseInv'
  BY <1>1, <1>3, <1>4, <1>5 DEF UseInv, Held, Known
<1> QED
  BY <1>2, <1>6, <1>7, <1>8, <1>9 DEF VaultInv, RingInv

-----------------------------------------------------------------------------
(* Accounts and tokens *)

LEMMA NewPassword ==
  ASSUME AccountInv, UNCHANGED tokens,
         UNCHANGED accounts \/ \E u \in Users, pw \in Passwords :
                                 accounts' = [accounts EXCEPT ![u] = pw]
  PROVE  /\ accounts' \in [Users -> Passwords \cup {NoPassword}]
         /\ \A u \in Users : accounts[u] # NoPassword => accounts'[u] # NoPassword
         /\ tokens' \subseteq [user : Users, key : Nat]
         /\ \A t \in tokens' : accounts'[t.user] # NoPassword
<1>1. accounts' \in [Users -> Passwords \cup {NoPassword}]
  BY DEF AccountInv
<1>2. \A u \in Users : accounts[u] # NoPassword => accounts'[u] # NoPassword
  BY AccountAssumption DEF AccountInv
<1> QED
  BY <1>1, <1>2 DEF AccountInv

LEMMA TokenSigned ==
  ASSUME VaultInv, NEW w \in Threads, NEW u \in Users, Signs(w, u),
         accounts' \in [Users -> Passwords \cup {NoPassword}],
         \A v \in Users : accounts[v] # NoPassword => accounts'[v] # NoPassword,
         accounts'[u] # NoPassword
  PROVE  /\ RingInv' /\ tokens' \subseteq [user : Users, key : Nat]
         /\ \A t \in tokens' : accounts'[t.user] # NoPassword
<1>1. /\ UseKey(w, "session") /\ UNCHANGED sealed /\ w \in Workers /\ "session" \in Purposes
      /\ tokens' = tokens \cup {[user |-> u, key |-> KeyOf(w, "session")]} /\ RingInv
  BY DEF Signs, Workers, Purposes, VaultInv
<1>2. KeyOf(w, "session") \in Nat
  BY <1>1, UsedIsHeld
<1>3. RingInv'
  BY <1>1, UseStep
<1> QED
  BY <1>1, <1>2, <1>3 DEF VaultInv, AccountInv

LEMMA PeopleStep ==
  ASSUME VaultInv,
         \/ \E w \in Threads :
              \/ SetupInsert(w)
              \/ \E u \in Users, pw \in Passwords : Login(w, u, pw)
              \/ \E t \in tokens, old, new \in Passwords : ChangeBegin(w, t, old, new)
         \/ \E u \in Users, pw \in Passwords : SetupBegin(u, pw) \/ CommandBegin(u, pw)
         \/ \E t \in tokens : Expire(t)
         \/ ChangeWrite \/ CommandWrite
  PROVE  VaultInv'
<1>0. AccountInv /\ RingInv
  BY DEF VaultInv
<1>1. ASSUME NEW u \in Users, NEW pw \in Passwords, SetupBegin(u, pw) PROVE VaultInv'
  <2>1. AccountInv'
    BY <1>0, <1>1, AccountAssumption DEF SetupBegin, Input, AccountInv, Drafts
  <2> QED
    BY <1>0, <1>1, <2>1, RingStays DEF SetupBegin, VaultInv
<1>2. ASSUME NEW w \in Threads, NEW u \in Users, NEW pw \in Passwords, Login(w, u, pw) PROVE VaultInv'
  <2>1. accounts[u] # NoPassword /\ UNCHANGED accounts
    BY <1>2, AccountAssumption DEF Login
  <2>2. /\ RingInv' /\ tokens' \subseteq [user : Users, key : Nat]
        /\ \A t \in tokens' : accounts'[t.user] # NoPassword
    BY <1>0, <1>2, <2>1, TokenSigned DEF Login, AccountInv
  <2>3. AccountInv'
    BY <1>0, <1>2, <2>1, <2>2, AccountAssumption DEF Login, Input, AccountInv
  <2> QED
    BY <2>2, <2>3 DEF VaultInv
<1>3. ASSUME NEW u \in Users, NEW pw \in Passwords, CommandBegin(u, pw) PROVE VaultInv'
  <2>1. command' \in Drafts({"insert", "update"})
    BY <1>3 DEF CommandBegin, Drafts
  <2>2. AccountInv'
    BY <1>0, <1>3, <2>1, AccountAssumption DEF CommandBegin, Input, AccountInv
  <2> QED
    BY <1>0, <1>3, <2>2, RingStays DEF CommandBegin, VaultInv
<1>4. ASSUME NEW t \in tokens, Expire(t) PROVE VaultInv'
  <2>1. tokens' \subseteq tokens /\ UNCHANGED keyVars
    BY <1>4 DEF Expire
  <2>2. AccountInv'
    BY <1>0, <1>4, <2>1 DEF Expire, AccountInv
  <2> QED
    BY <1>0, <2>1, <2>2, RingStays DEF VaultInv
<1>5. ASSUME NEW w \in Threads, NEW t \in tokens, NEW old \in Passwords, NEW new \in Passwords,
             ChangeBegin(w, t, old, new)
      PROVE  VaultInv'
  <2>1. t.user \in Users
    BY <1>0 DEF AccountInv
  <2>2. AccountInv'
    BY <1>0, <1>5, <2>1, AccountAssumption DEF ChangeBegin, Input, AccountInv, Drafts
  <2>3. /\ w \in Workers /\ "session" \in Purposes /\ UseKey(w, "session")
        /\ UNCHANGED <<sealed, tokens>>
    BY <1>5 DEF ChangeBegin, Admits, Workers, Purposes
  <2>4. RingInv'
    BY <1>0, <2>3, UseStep
  <2> QED
    BY <2>2, <2>4 DEF VaultInv
<1>6. ASSUME NEW w \in Threads, SetupInsert(w) PROVE VaultInv'
  <2>1. visit.user \in Users /\ visit.password \in Passwords
    BY <1>0, <1>6 DEF SetupInsert, AccountInv, Drafts, Resting
  <2>2. visit' \in Drafts({"setup", "change"}) /\ UNCHANGED <<command, inputs, restarts>>
    BY <1>6 DEF SetupInsert, Drafts
  <2>3. CASE UNCHANGED <<accounts, tokens, keyVars>>
    <3>1. RingInv'
      BY <1>0, <2>3, RingStays
    <3> QED
      BY <1>0, <2>2, <2>3, <3>1 DEF VaultInv, AccountInv
  <2>4. CASE accounts' = [accounts EXCEPT ![visit.user] = visit.password] /\ Signs(w, visit.user)
    <3>1. /\ accounts' \in [Users -> Passwords \cup {NoPassword}]
          /\ \A v \in Users : accounts[v] # NoPassword => accounts'[v] # NoPassword
          /\ accounts'[visit.user] # NoPassword
      BY <1>0, <2>1, <2>4, AccountAssumption DEF AccountInv
    <3>2. /\ RingInv' /\ tokens' \subseteq [user : Users, key : Nat]
          /\ \A t \in tokens' : accounts'[t.user] # NoPassword
      BY <2>1, <2>4, <3>1, TokenSigned
    <3> QED
      BY <1>0, <2>2, <3>1, <3>2 DEF VaultInv, AccountInv
  <2> QED
    BY <1>6, <2>3, <2>4 DEF SetupInsert
<1>7. CASE ChangeWrite
  <2>1. visit.user \in Users /\ visit.password \in Passwords
    BY <1>0, <1>7 DEF ChangeWrite, AccountInv, Drafts, Resting
  <2>2. visit' \in Drafts({"setup", "change"}) /\ UNCHANGED <<command, inputs, restarts, tokens, keyVars>>
    BY <1>7 DEF ChangeWrite, Drafts
  <2>3. AccountInv'
    BY <1>0, <1>7, <2>1, <2>2, NewPassword DEF ChangeWrite, AccountInv
  <2> QED
    BY <1>0, <2>2, <2>3, RingStays DEF VaultInv
<1>8. CASE CommandWrite
  <2>1. command.user \in Users /\ command.password \in Passwords
    BY <1>0, <1>8 DEF CommandWrite, AccountInv, Drafts, Resting
  <2>2. command' \in Drafts({"insert", "update"}) /\ UNCHANGED <<visit, inputs, restarts, tokens, keyVars>>
    BY <1>8 DEF CommandWrite, Drafts
  <2>3. AccountInv'
    BY <1>0, <1>8, <2>1, <2>2, NewPassword DEF CommandWrite, AccountInv
  <2> QED
    BY <1>0, <2>2, <2>3, RingStays DEF VaultInv
<1> QED
  BY <1>1, <1>2, <1>3, <1>4, <1>5, <1>6, <1>7, <1>8

LEMMA VaultStep == VaultInv /\ [AccountNext]_accountVars => VaultInv'
<1> SUFFICES ASSUME VaultInv, [AccountNext]_accountVars PROVE VaultInv'
  OBVIOUS
<1>0. AccountInv /\ RingInv
  BY DEF VaultInv
<1>1. ASSUME NEW w \in Workers, NEW k \in Needs(w),
             SeekKey(w, k) \/ ReadKey(w, k) \/ GenerateKey(w, k) \/ WriteKey(w, k) \/ Forget(w, k)
      PROVE  VaultInv'
  <2>1. k \in Purposes
    BY DEF Needs, Purposes
  <2>2. OnlyKeys
    BY <1>1 DEF SeekKey, ReadKey, GenerateKey, Make, WriteKey, Forget
  <2>3. AccountInv'
    BY <1>0, <2>2 DEF OnlyKeys, AccountInv
  <2>4. RingInv'
    <3>1. CASE Forget(w, k)
      BY <1>0, <2>1, <3>1, UseStep DEF Forget, OnlyKeys
    <3> QED
      BY <1>0, <1>1, <2>1, <3>1, SeekStep, ReadStep, GenerateStep, WriteStep
  <2> QED
    BY <2>3, <2>4 DEF VaultInv
<1>2. ASSUME NEW w \in Workers, Seal(w) PROVE VaultInv'
  <2>1. AccountInv'
    BY <1>0, <1>2, AccountAssumption DEF Seal, Input, AccountInv
  <2>2. RingInv'
    BY <1>0, <1>2, UseStep DEF Seal, Purposes
  <2> QED
    BY <2>1, <2>2 DEF VaultInv
<1>3. CASE UNCHANGED accountVars
  BY <1>0, <1>3, RingStays DEF accountVars, VaultInv, AccountInv
<1> QED
  BY <1>1, <1>2, <1>3, EndStep, PeopleStep DEF AccountNext

LEMMA VaultInvariance == AccountSpec => []VaultInv
BY VaultBegins, VaultStep, PTL DEF AccountSpec

LEMMA VaultTyped == VaultInv => AccountTypeOK
<1> SUFFICES ASSUME VaultInv PROVE AccountTypeOK
  OBVIOUS
<1>1. AccountInv /\ KeyTypes /\ KeyBounds /\ UseInv
  BY DEF VaultInv, RingInv
<1>2. ASSUME NEW k \in Purposes
      PROVE  /\ files[k] \in 0 .. keys[k]
             /\ \A p \in Processes : caches[p][k] \in 0 .. keys[k]
             /\ \A w \in Workers : hand[w][k] \in [at : {"none", "seeks", "makes", "keeps"}, key : 0 .. keys[k]]
             /\ astray[k] \subseteq 1 .. keys[k]
  <2>1. /\ files[k] \in 0 .. keys[k] /\ \A p \in Processes : caches[p][k] \in 0 .. keys[k]
        /\ keys[k] \in Nat
    BY <1>1 DEF KeyTypes, KeyBounds, Known
  <2>2. \A w \in Workers : hand[w][k] \in [at : HandStates, key : Nat] /\ hand[w][k].key \in 0 .. keys[k]
    BY <1>1 DEF KeyTypes, KeyBounds, Known
  <2>3. \A x \in astray[k] : x \in 1 .. keys[k]
    BY <1>1, <2>1 DEF KeyTypes, KeyBounds, Known
  <2> QED
    BY <2>1, <2>2, <2>3 DEF HandStates
<1>3. keys \in [Purposes -> Nat] /\ sealed \in 0 .. keys["encryption"] /\ failures \in 0 .. Failures
  BY <1>1 DEF KeyTypes, UseInv, Known
<1>4. visit.job \in {"none", "setup", "change"} /\ command.job \in {"none", "insert", "update"}
  BY <1>1 DEF AccountInv, Drafts, Resting
<1> QED
  BY <1>1, <1>2, <1>3, <1>4 DEF AccountInv, AccountTypeOK

\* Accounts, tokens, keys and what is under way stay well typed.
THEOREM AccountsTyped == AccountSpec => []AccountTypeOK
BY VaultTyped, VaultInvariance, PTL

\* A key in use by a process is held by its file, or astray.
LEMMA InUseIsHeld ==
  ASSUME VaultInv, NEW p \in Processes, NEW k \in Purposes, NEW key \in InUse(p, k)
  PROVE  key # 0 /\ Held(k, key)
BY DEF InUse, VaultInv, RingInv, UseInv

\* What was encrypted for the database stays readable over every restart, by
\* every thread of the panel and by the command line, unless the key it was
\* encrypted under could not be read or written when it had to be, or was made
\* beside another.
THEOREM SealedStaysReadable == AccountSpec => []SealedReadable
<1>1. VaultInv => SealedReadable
  <2> SUFFICES ASSUME VaultInv PROVE SealedReadable
    OBVIOUS
  <2>1. Held("encryption", sealed) /\ "encryption" \in Purposes
    BY DEF VaultInv, RingInv, UseInv, Purposes
  <2>2. \A p \in Processes : \A key \in InUse(p, "encryption") : key # 0 /\ Held("encryption", key)
    BY <2>1, InUseIsHeld
  <2> QED
    BY <2>1, <2>2 DEF SealedReadable, Held
<1> QED
  BY <1>1, VaultInvariance, PTL

\* A token is honoured by every thread of the panel that signed it and of the
\* one after it, with the same exceptions.
THEOREM TokensStayHonoured == AccountSpec => []TokensHonoured
<1>1. VaultInv => TokensHonoured
  <2> SUFFICES ASSUME VaultInv PROVE TokensHonoured
    OBVIOUS
  <2>1. \A t \in tokens : /\ accounts[t.user] # NoPassword /\ t.key # 0
                          /\ Held("session", t.key)
    BY DEF VaultInv, AccountInv, RingInv, UseInv
  <2>2. \A key \in InUse("panel", "session") : key # 0 /\ Held("session", key)
    BY InUseIsHeld DEF Processes, Purposes
  <2> QED
    BY <2>1, <2>2 DEF TokensHonoured, Held
<1> QED
  BY <1>1, VaultInvariance, PTL

-----------------------------------------------------------------------------
(****************************** the updater *******************************)

UpdateTypes ==
  /\ running \in Tags /\ installed \in Tags /\ goal \in Tags /\ want \in Tags
  /\ record \in [stage : Stages, from : Tags]
  /\ unit \in {"none", "active", "exited", "error", "failed"}
  /\ start \in {"idle", "clear", "write", "launch", "again", "relaunch", "giveup"}
  /\ overdue \in BOOLEAN /\ evidence \in BOOLEAN /\ strayed \in BOOLEAN
  /\ checker \in [checking : BOOLEAN, latest : Tags \cup {NoVersion}, error : BOOLEAN]
  /\ asked \in [UpdateKinds -> Nat] /\ \A k \in UpdateKinds : asked[k] <= UpdateBudget[k]

\* What start launches the record tells of, or could not be made to.
StartInv ==
  start \in {"launch", "again", "relaunch", "giveup"} => record.stage = "running" \/ strayed

\* What the unit tells of the installer.
UnitInv ==
  /\ running = installed
  /\ unit = "exited" => evidence \/ strayed

UpdateInv == UpdateTypes /\ StartInv /\ UnitInv /\ InstallerIsRecorded

\* One step of SuccessHasEvidence.
SuccessStep ==
  record'.stage = "succeeded" /\ record.stage # "succeeded" =>
    evidence \/ installed # record.from \/ strayed

LEMMA UpdateBegins == UpdateInit => UpdateInv
<1> SUFFICES ASSUME UpdateInit PROVE UpdateInv
  OBVIOUS
<1>1. UpdateTypes
  <2>1. /\ running \in Tags /\ installed \in Tags /\ goal \in Tags /\ want \in Tags
        /\ record \in [stage : Stages, from : Tags]
    BY UpdateAssumption DEF UpdateInit, Stages
  <2>2. asked \in [UpdateKinds -> Nat] /\ \A k \in UpdateKinds : asked[k] <= UpdateBudget[k]
    <3>1. \A k \in UpdateKinds : UpdateBudget[k] \in Nat
      BY UpdateAssumption
    <3> QED
      BY <3>1 DEF UpdateInit
  <2>3. checker \in [checking : BOOLEAN, latest : Tags \cup {NoVersion}, error : BOOLEAN]
    BY DEF UpdateInit
  <2> QED
    BY <2>1, <2>2, <2>3 DEF UpdateInit, UpdateTypes
<1>2. StartInv /\ UnitInv /\ InstallerIsRecorded
  BY DEF UpdateInit, StartInv, UnitInv, InstallerIsRecorded
<1> QED
  BY <1>1, <1>2 DEF UpdateInv

LEMMA UpdateTyped == UpdateTypes => UpdateTypeOK
BY UpdateAssumption DEF UpdateTypes, UpdateTypeOK

LEMMA AsksAll ==
  ASSUME UpdateTypes, NEW ks \in SUBSET UpdateKinds, AskAll(ks)
  PROVE  asked' \in [UpdateKinds -> Nat] /\ \A j \in UpdateKinds : asked'[j] <= UpdateBudget[j]
<1>1. /\ \A k \in ks : asked[k] < UpdateBudget[k]
      /\ asked' = [k \in UpdateKinds |-> IF k \in ks THEN asked[k] + 1 ELSE asked[k]]
  BY DEF AskAll
<1>2. \A k \in UpdateKinds : asked[k] \in Nat /\ UpdateBudget[k] \in Nat
  BY UpdateAssumption DEF UpdateTypes
<1> QED
  BY <1>1, <1>2 DEF UpdateTypes

LEMMA Asks ==
  ASSUME UpdateTypes, NEW k \in UpdateKinds, Ask(k)
  PROVE  asked' \in [UpdateKinds -> Nat] /\ \A j \in UpdateKinds : asked'[j] <= UpdateBudget[j]
BY AsksAll DEF Ask

\* What _resolve makes of the record, as it sees the unit.
LEMMA ResolvedFacts ==
  ASSUME UpdateInv, NEW hitch
  PROVE  /\ Resolved(Seen(hitch)) \in Stages
         /\ record.stage # "running" => Resolved(Seen(hitch)) = record.stage
         /\ unit = "active" /\ record.stage = "running" =>
              Resolved(Seen(hitch)) = "running" \/ overdue \/ Seen(hitch) # unit
         /\ Resolved(Seen(hitch)) = "succeeded" /\ record.stage # "succeeded" =>
              evidence \/ installed # record.from \/ strayed
<1> DEFINE seen == Seen(hitch)
<1>1. /\ seen \in {"none", unit} /\ seen \in {"none", "active", "exited", "error", "failed"}
      /\ record.stage \in Stages /\ running = installed /\ (unit = "exited" => evidence \/ strayed)
  BY DEF UpdateInv, UpdateTypes, UnitInv, Seen
<1> HIDE DEF seen
<1> SUFFICES /\ Resolved(seen) \in Stages
             /\ record.stage # "running" => Resolved(seen) = record.stage
             /\ unit = "active" /\ record.stage = "running" =>
                  Resolved(seen) = "running" \/ overdue \/ seen # unit
             /\ Resolved(seen) = "succeeded" /\ record.stage # "succeeded" =>
                  evidence \/ installed # record.from \/ strayed
  BY DEF seen
<1>2. CASE record.stage # "running"
  BY <1>1, <1>2 DEF Resolved
<1>3. CASE record.stage = "running"
  <2>1. CASE seen = "active"
    BY <1>3, <2>1 DEF Resolved, Stages
  <2>2. CASE seen \in {"failed", "error"}
    BY <1>1, <1>3, <2>2 DEF Resolved, Stages
  <2>3. CASE seen = "exited"
    BY <1>1, <1>3, <2>3 DEF Resolved, Stages
  <2>4. CASE seen = "none"
    BY <1>1, <1>3, <2>4 DEF Resolved, Stages
  <2> QED
    BY <1>1, <2>1, <2>2, <2>3, <2>4
<1> QED
  BY <1>2, <1>3

LEMMA TornFacts ==
  UpdateTypes => Torn \in [stage : Stages, from : Tags] /\ Torn.stage = "idle"
BY DEF UpdateTypes, Torn, Stages

LEMMA ResolveFacts ==
  ASSUME UpdateInv, NEW hitch, Resolve(hitch), UNCHANGED <<hostVars, overdue, evidence>>
  PROVE  /\ record' \in [stage : Stages, from : Tags] /\ strayed' \in BOOLEAN
         /\ UnitInv' /\ InstallerIsRecorded' /\ SuccessStep
<1> DEFINE stage == Resolved(Seen(hitch))
<1>1. /\ UpdateTypes /\ UnitInv /\ InstallerIsRecorded
      /\ strayed' = (strayed \/ Seen(hitch) # unit)
      /\ "unwritten" \in hitch => stage # record.stage
      /\ \/ record' = [record EXCEPT !.stage = stage]
         \/ "unwritten" \in hitch /\ record' \in {record, Torn}
  <2>1. /\ UpdateTypes /\ UnitInv /\ InstallerIsRecorded
        /\ strayed' = (strayed \/ Seen(hitch) # unit)
    BY DEF UpdateInv, Resolve
  <2>2. /\ "unwritten" \in hitch => stage # record.stage
        /\ Write([record EXCEPT !.stage = stage], hitch)
    BY DEF Resolve
  <2>3. \/ record' = [record EXCEPT !.stage = stage]
        \/ "unwritten" \in hitch /\ record' \in {record, Torn}
    <3>1. CASE "unwritten" \in hitch
      BY <2>2, <3>1 DEF Write
    <3>2. CASE "unwritten" \notin hitch
      BY <2>2, <3>2 DEF Write
    <3> QED
      BY <3>1, <3>2
  <2> QED
    BY <2>1, <2>2, <2>3
<1>2. /\ stage \in Stages /\ (record.stage # "running" => stage = record.stage)
      /\ unit = "active" /\ record.stage = "running" =>
           stage = "running" \/ overdue \/ Seen(hitch) # unit
      /\ stage = "succeeded" /\ record.stage # "succeeded" =>
           evidence \/ installed # record.from \/ strayed
  BY ResolvedFacts
<1> HIDE DEF stage
<1>3. /\ [record EXCEPT !.stage = stage] \in [stage : Stages, from : Tags]
      /\ [record EXCEPT !.stage = stage].stage = stage
      /\ Torn \in [stage : Stages, from : Tags] /\ Torn.stage = "idle" /\ record.stage \in Stages
  BY <1>1, <1>2, TornFacts DEF UpdateTypes
<1>4. record' \in [stage : Stages, from : Tags] /\ strayed' \in BOOLEAN
  BY <1>1, <1>3 DEF UpdateTypes
<1>5. UnitInv'
  BY <1>1 DEF UnitInv, hostVars
<1>6. InstallerIsRecorded'
  <2> SUFFICES ASSUME unit = "active", ~overdue, ~strayed, Seen(hitch) = unit
               PROVE  record'.stage = "running"
    BY <1>1 DEF InstallerIsRecorded, hostVars, UpdateTypes
  <2>1. record.stage = "running" /\ stage = "running"
    BY <1>1, <1>2 DEF InstallerIsRecorded
  <2> QED
    BY <1>1, <1>3, <2>1
<1>7. SuccessStep
  BY <1>1, <1>2, <1>3 DEF SuccessStep
<1> QED
  BY <1>4, <1>5, <1>6, <1>7

\* The panel starts again on the files that are there.
LEMMA Reboots ==
  ASSUME UpdateInv, Restarted, UNCHANGED <<overdue, goal, want, evidence>>,
         installed' \in Tags,
         asked' \in [UpdateKinds -> Nat], \A k \in UpdateKinds : asked'[k] <= UpdateBudget[k],
         unit' \in {"none", unit},
         \/ UNCHANGED <<record, strayed>>
         \/ record' = Torn /\ strayed' = (strayed \/ unit = "active")
  PROVE  UpdateInv' /\ SuccessStep
<1>1. /\ running' = installed' /\ start' = "idle"
      /\ checker' = [checking |-> FALSE, latest |-> NoVersion, error |-> FALSE]
  BY DEF Restarted
<1>2. UpdateTypes /\ UnitInv /\ InstallerIsRecorded
  BY DEF UpdateInv
<1>3. /\ record' \in [stage : Stages, from : Tags] /\ strayed' \in BOOLEAN
      /\ record'.stage \in {"idle", record.stage} /\ (strayed => strayed')
  BY <1>2, TornFacts DEF UpdateTypes
<1>4. UpdateTypes'
  BY <1>1, <1>2, <1>3 DEF UpdateTypes
<1>5. StartInv' /\ UnitInv'
  BY <1>1, <1>2, <1>3 DEF StartInv, UnitInv
<1>6. InstallerIsRecorded'
  BY <1>2 DEF InstallerIsRecorded, UpdateTypes
<1>7. SuccessStep
  BY <1>3 DEF SuccessStep
<1> QED
  BY <1>4, <1>5, <1>6, <1>7 DEF UpdateInv

LEMMA UpdateStep == UpdateInv /\ [UpdateNext]_updateVars => UpdateInv' /\ SuccessStep
<1> SUFFICES ASSUME UpdateInv, [UpdateNext]_updateVars PROVE UpdateInv' /\ SuccessStep
  OBVIOUS
<1>0. UpdateTypes /\ StartInv /\ UnitInv /\ InstallerIsRecorded
  BY DEF UpdateInv
<1>r. record.stage \in Stages /\ Torn \in [stage : Stages, from : Tags] /\ Torn.stage = "idle"
  BY <1>0, TornFacts DEF UpdateTypes
<1> USE DEF hostVars, fileVars
<1>1. CASE PollState
  <2>1. PICK hitch \in SUBSET {"blind", "unwritten"} : AskAll(hitch) /\ Resolve(hitch)
    BY <1>1 DEF PollState
  <2>2. asked' \in [UpdateKinds -> Nat] /\ \A k \in UpdateKinds : asked'[k] <= UpdateBudget[k]
    BY <1>0, <2>1, AsksAll DEF UpdateKinds, Hitches
  <2>3. /\ record' \in [stage : Stages, from : Tags] /\ strayed' \in BOOLEAN
        /\ UnitInv' /\ InstallerIsRecorded' /\ SuccessStep
    BY <1>1, <2>1, ResolveFacts DEF PollState
  <2> QED
    BY <1>0, <1>1, <2>2, <2>3 DEF PollState, UpdateInv, UpdateTypes, StartInv
<1>2. ASSUME NEW tag \in Tags, StartBegin(tag) PROVE UpdateInv' /\ SuccessStep
  <2>1. want' \in Tags /\ start' = "clear" /\ UNCHANGED <<hostVars, overdue, checker, evidence>>
    BY <1>2 DEF StartBegin
  <2>2. CASE AskAll({"start", "unread"}) /\ UNCHANGED <<record, strayed>>
    <3>1. asked' \in [UpdateKinds -> Nat] /\ \A k \in UpdateKinds : asked'[k] <= UpdateBudget[k]
      BY <1>0, <2>2, AsksAll DEF UpdateKinds, Hitches
    <3> QED
      BY <1>0, <2>1, <2>2, <3>1 DEF UpdateInv, UpdateTypes, StartInv, UnitInv, InstallerIsRecorded,
         SuccessStep
  <2>3. ASSUME NEW hitch \in SUBSET {"blind", "unwritten"}, AskAll({"start"} \cup hitch), Resolve(hitch)
        PROVE  UpdateInv' /\ SuccessStep
    <3>1. asked' \in [UpdateKinds -> Nat] /\ \A k \in UpdateKinds : asked'[k] <= UpdateBudget[k]
      BY <1>0, <2>3, AsksAll DEF UpdateKinds, Hitches
    <3>2. /\ record' \in [stage : Stages, from : Tags] /\ strayed' \in BOOLEAN
          /\ UnitInv' /\ InstallerIsRecorded' /\ SuccessStep
      BY <2>1, <2>3, ResolveFacts
    <3> QED
      BY <1>0, <2>1, <3>1, <3>2 DEF UpdateInv, UpdateTypes, StartInv
  <2> QED
    BY <1>2, <2>2, <2>3 DEF StartBegin
<1>3. CASE StartClear
  <2>1. asked' \in [UpdateKinds -> Nat] /\ \A k \in UpdateKinds : asked'[k] <= UpdateBudget[k]
    BY <1>0, <1>3, Asks DEF StartClear, UpdateKinds, Hitches, UpdateTypes
  <2>2. /\ unit' \in {"none", unit} /\ start' \in {"write", "relaunch"}
        /\ start' = "relaunch" => start = "again"
        /\ UNCHANGED <<running, installed, goal, fileVars, want, checker>>
    BY <1>3 DEF StartClear
  <2> QED
    BY <1>0, <2>1, <2>2 DEF UpdateInv, UpdateTypes, StartInv, UnitInv, InstallerIsRecorded, SuccessStep
<1>4. CASE StartWrite
  <2>1. asked' \in [UpdateKinds -> Nat] /\ \A k \in UpdateKinds : asked'[k] <= UpdateBudget[k]
    BY <1>0, <1>4, Asks DEF StartWrite, UpdateKinds, Hitches, UpdateTypes
  <2>2. start' = "launch" /\ UNCHANGED <<hostVars, want, checker>>
    BY <1>4 DEF StartWrite
  <2>3. CASE /\ record' = [stage |-> "running", from |-> running]
             /\ overdue' = FALSE /\ evidence' = FALSE /\ strayed' = (unit # "none")
    BY <1>0, <2>1, <2>2, <2>3 DEF UpdateInv, UpdateTypes, StartInv, UnitInv, InstallerIsRecorded,
       SuccessStep, Stages
  <2>4. CASE record' \in {record, Torn} /\ strayed' = TRUE /\ UNCHANGED <<overdue, evidence>>
    BY <1>0, <1>r, <2>1, <2>2, <2>4 DEF UpdateInv, UpdateTypes, StartInv, UnitInv,
       InstallerIsRecorded, SuccessStep
  <2> QED
    BY <1>4, <2>3, <2>4 DEF StartWrite
<1>5. CASE Launch
  <2>1. asked' \in [UpdateKinds -> Nat] /\ \A k \in UpdateKinds : asked'[k] <= UpdateBudget[k]
    BY <1>0, <1>5, Asks DEF Launch, UpdateKinds, UpdateTypes
  <2>2. /\ record.stage = "running" \/ strayed
        /\ unit' \in {"none", "active", unit} /\ goal' \in {want, goal}
        /\ start' \in {"idle", "again", "giveup"}
        /\ UNCHANGED <<running, installed, record, overdue, evidence, strayed, want, checker>>
    BY <1>0, <1>5 DEF Launch, StartInv
  <2> QED
    BY <1>0, <2>1, <2>2 DEF UpdateInv, UpdateTypes, StartInv, UnitInv, InstallerIsRecorded, SuccessStep
<1>6. CASE StartGiveUp
  <2>1. asked' \in [UpdateKinds -> Nat] /\ \A k \in UpdateKinds : asked'[k] <= UpdateBudget[k]
    BY <1>0, <1>6, Asks DEF StartGiveUp, UpdateKinds, Hitches, UpdateTypes
  <2>2. /\ record' \in [stage : Stages, from : Tags] /\ record'.stage \in {"failed", "idle", record.stage}
        /\ start' = "idle" /\ strayed' = (strayed \/ unit = "active") /\ strayed' \in BOOLEAN
        /\ overdue' \in BOOLEAN /\ UNCHANGED <<hostVars, want, checker, evidence>>
    <3>1. /\ start' = "idle" /\ strayed' = (strayed \/ unit = "active") /\ strayed' \in BOOLEAN
          /\ overdue' \in BOOLEAN /\ UNCHANGED <<hostVars, want, checker, evidence>>
      BY <1>0, <1>6 DEF StartGiveUp, UpdateTypes
    <3>2. \/ record' = [stage |-> "failed", from |-> running]
          \/ record' \in {record, Torn}
      BY <1>6 DEF StartGiveUp
    <3>3. [stage |-> "failed", from |-> running] \in [stage : Stages, from : Tags]
      BY <1>0 DEF UpdateTypes, Stages
    <3> QED
      BY <1>0, <1>r, <3>1, <3>2, <3>3 DEF UpdateTypes
  <2> QED
    BY <1>0, <2>1, <2>2 DEF UpdateInv, UpdateTypes, StartInv, UnitInv, InstallerIsRecorded, SuccessStep
<1>7. CASE Install
  BY <1>0, <1>7, Reboots DEF Install, UpdateTypes
<1>8. CASE InstallerEnds
  BY <1>0, <1>8 DEF InstallerEnds, UpdateInv, UpdateTypes, StartInv, UnitInv, InstallerIsRecorded,
     SuccessStep
<1>9. CASE PanelRestarts \/ TornRecord \/ Reboot
  <2>1. asked' \in [UpdateKinds -> Nat] /\ \A k \in UpdateKinds : asked'[k] <= UpdateBudget[k]
    BY <1>0, <1>9, Asks DEF PanelRestarts, TornRecord, Reboot, UpdateKinds
  <2> QED
    BY <1>0, <1>9, <2>1, Reboots DEF PanelRestarts, TornRecord, Reboot, UpdateTypes
<1>10. CASE ResetUnit
  <2>1. asked' \in [UpdateKinds -> Nat] /\ \A k \in UpdateKinds : asked'[k] <= UpdateBudget[k]
    BY <1>0, <1>10, Asks DEF ResetUnit, UpdateKinds
  <2> QED
    BY <1>0, <1>10, <2>1 DEF ResetUnit, UpdateInv, UpdateTypes, StartInv, UnitInv,
       InstallerIsRecorded, SuccessStep
<1>11. CASE HalfAnHour
  BY <1>0, <1>11 DEF HalfAnHour, UpdateInv, UpdateTypes, StartInv, UnitInv, InstallerIsRecorded,
     SuccessStep
<1>12. CASE BeginCheck \/ EndCheck
  <2>1. asked' \in [UpdateKinds -> Nat] /\ \A k \in UpdateKinds : asked'[k] <= UpdateBudget[k]
    BY <1>0, <1>12, Asks DEF BeginCheck, EndCheck, UpdateKinds, UpdateTypes
  <2>2. checker' \in [checking : BOOLEAN, latest : Tags \cup {NoVersion}, error : BOOLEAN]
    <3>1. checker \in [checking : BOOLEAN, latest : Tags \cup {NoVersion}, error : BOOLEAN]
      BY <1>0 DEF UpdateTypes
    <3>2. \/ checker' = [checker EXCEPT !.checking = TRUE]
          \/ checker' = [checker EXCEPT !.checking = FALSE, !.error = TRUE]
          \/ \E tag \in Tags :
                checker' = [checking |-> FALSE, latest |-> tag, error |-> FALSE]
      BY <1>12 DEF BeginCheck, EndCheck
    <3>3. CASE checker' = [checker EXCEPT !.checking = TRUE]
      BY <3>1, <3>3
    <3>4. CASE checker' = [checker EXCEPT !.checking = FALSE, !.error = TRUE]
      BY <3>1, <3>4
    <3>5. ASSUME NEW tag \in Tags,
                 checker' = [checking |-> FALSE, latest |-> tag, error |-> FALSE]
          PROVE  checker' \in [checking : BOOLEAN, latest : Tags \cup {NoVersion}, error : BOOLEAN]
      BY <3>5
    <3> QED
      BY <3>2, <3>3, <3>4, <3>5
  <2>3. UNCHANGED <<hostVars, record, overdue, evidence, strayed, start, want>>
    BY <1>12 DEF BeginCheck, EndCheck
  <2> QED
    BY <1>0, <2>1, <2>2, <2>3 DEF UpdateInv, UpdateTypes, StartInv, UnitInv, InstallerIsRecorded,
       SuccessStep
<1>13. CASE UNCHANGED updateVars
  BY <1>0, <1>13 DEF updateVars, UpdateInv, UpdateTypes, StartInv, UnitInv, InstallerIsRecorded,
     SuccessStep
<1> QED
  BY <1>1, <1>2, <1>3, <1>4, <1>5, <1>6, <1>7, <1>8, <1>9, <1>10, <1>11, <1>12, <1>13
     DEF UpdateNext

LEMMA UpdateInvariance == UpdateSpec => []UpdateInv
BY UpdateBegins, UpdateStep, PTL DEF UpdateSpec

\* An installer at work is one the record tells of, through crashes, reboots
\* and torn records, unless a failure that is passed over lost track of it: a
\* record not written, a unit not seen or not stopped, an answer of systemd-run
\* that came late.
THEOREM InstallersAreRecorded == UpdateSpec => []InstallerIsRecorded
<1>1. UpdateInv => InstallerIsRecorded
  BY DEF UpdateInv
<1> QED
  BY <1>1, UpdateInvariance, PTL

\* An update comes to be reported as done only on evidence that is there, its
\* own or that of a unit that could not be cleared away.
THEOREM SuccessesHaveEvidence == UpdateSpec => SuccessHasEvidence
<1>1. UpdateInv /\ [UpdateNext]_updateVars => [SuccessStep]_updateVars
  BY UpdateStep
<1> QED
  BY <1>1, UpdateInvariance, PTL DEF UpdateSpec, SuccessHasEvidence, SuccessStep

-----------------------------------------------------------------------------
(******************************* versions **********************************)

IsTag(v) == v.nums \in Nat \X Nat \X Nat /\ v.pre \in Nat /\ v.parsed \in BOOLEAN

\* Two tags of the same rank carry the same numbers and the same suffix.
LEMMA Numbers ==
  ASSUME NEW s \in Nat \X Nat \X Nat, NEW t \in Nat \X Nat \X Nat
  PROVE  /\ s[1] \in Nat /\ s[2] \in Nat /\ s[3] \in Nat
         /\ s = t <=> s[1] = t[1] /\ s[2] = t[2] /\ s[3] = t[3]
OBVIOUS

\* Tags are in order: none comes before itself, one that comes before a second
\* comes before what follows it, and of two different ones one comes first.
THEOREM VersionsAreOrdered ==
  ASSUME NEW u, NEW v, NEW w, IsTag(u), IsTag(v), IsTag(w)
  PROVE  /\ ~LessThan(u, u)
         /\ LessThan(u, v) /\ LessThan(v, w) => LessThan(u, w)
         /\ LessThan(u, v) \/ LessThan(v, u) \/ (u.nums = v.nums /\ u.pre = v.pre)
<1>1. /\ u.nums[1] \in Nat /\ u.nums[2] \in Nat /\ u.nums[3] \in Nat /\ u.pre \in Nat
      /\ v.nums[1] \in Nat /\ v.nums[2] \in Nat /\ v.nums[3] \in Nat /\ v.pre \in Nat
      /\ w.nums[1] \in Nat /\ w.nums[2] \in Nat /\ w.nums[3] \in Nat /\ w.pre \in Nat
  BY Numbers DEF IsTag
<1> DEFINE Same(x, y) == x[1] = y[1] /\ x[2] = y[2] /\ x[3] = y[3]
<1>2. /\ u.nums = v.nums <=> Same(u.nums, v.nums)
      /\ v.nums = w.nums <=> Same(v.nums, w.nums)
      /\ u.nums = w.nums <=> Same(u.nums, w.nums)
  BY Numbers DEF IsTag
<1>3. ~LessThan(u, u)
  BY DEF LessThan
<1>4. ASSUME LessThan(u, v), LessThan(v, w) PROVE LessThan(u, w)
  <2>1. CASE u.nums = v.nums /\ v.nums = w.nums
    BY <1>1, <1>4, <2>1 DEF LessThan
  <2>2. CASE u.nums # v.nums \/ v.nums # w.nums
    <3>1. TupleLess(u.nums, w.nums)
      BY <1>1, <1>2, <1>4, <2>2 DEF LessThan, TupleLess
    <3>2. u.nums # w.nums
      BY <1>1, <1>2, <3>1 DEF TupleLess
    <3> QED
      BY <3>1, <3>2 DEF LessThan
  <2> QED
    BY <2>1, <2>2
<1>5. LessThan(u, v) \/ LessThan(v, u) \/ (u.nums = v.nums /\ u.pre = v.pre)
  <2>1. CASE u.nums = v.nums
    BY <1>1, <2>1 DEF LessThan
  <2>2. CASE u.nums # v.nums
    BY <1>1, <1>2, <2>2 DEF LessThan, TupleLess
  <2> QED
    BY <2>1, <2>2
<1> QED
  BY <1>3, <1>4, <1>5

\* Numbers and ranks of two digits; the first number may be any.
Digits(t) == t.nums[2] < 100 /\ t.nums[3] < 100 /\ t.pre < 99

LEMMA Weighed ==
  ASSUME NEW v, NEW w, IsTag(v), IsTag(w), Digits(v), Digits(w)
  PROVE  /\ Weight(v) \in Nat
         /\ LessThan(v, w) <=> Weight(v) < Weight(w)
         /\ v.pre = 0 => (IsRelease(v) <=> Weight(v) >= 100)
<1>1. /\ v.nums[1] \in Nat /\ v.nums[2] \in Nat /\ v.nums[3] \in Nat /\ v.pre \in Nat
      /\ w.nums[1] \in Nat /\ w.nums[2] \in Nat /\ w.nums[3] \in Nat /\ w.pre \in Nat
      /\ v.nums = w.nums <=> v.nums[1] = w.nums[1] /\ v.nums[2] = w.nums[2] /\ v.nums[3] = w.nums[3]
  BY Numbers DEF IsTag
<1>2. v.nums # <<0, 0, 0>> <=> ~(v.nums[1] = 0 /\ v.nums[2] = 0 /\ v.nums[3] = 0)
  BY Numbers DEF IsTag
<1>3. Weight(v) \in Nat
  BY <1>1 DEF Weight
<1>4. v.pre = 0 => (IsRelease(v) <=> Weight(v) >= 100)
  <2> SUFFICES ASSUME v.pre = 0
               PROVE  v.nums # <<0, 0, 0>> <=> Weight(v) >= 100
    BY DEF IsRelease
  <2>1. Weight(v) = ((v.nums[1] * 100 + v.nums[2]) * 100 + v.nums[3]) * 100 + 99
    BY DEF Weight
  <2>2. CASE v.nums = <<0, 0, 0>>
    <3>1. v.nums[1] = 0 /\ v.nums[2] = 0 /\ v.nums[3] = 0
      BY <2>2
    <3>2. ~(Weight(v) >= 100)
      BY <2>1, <3>1
    <3> QED
      BY <2>2, <3>2
  <2>3. CASE v.nums # <<0, 0, 0>>
    <3>1. v.nums[1] # 0 \/ v.nums[2] # 0 \/ v.nums[3] # 0
      BY <1>2, <2>3
    <3>2. Weight(v) >= 100
      BY <1>1, <2>1, <3>1
    <3> QED
      BY <2>3, <3>2
  <2> QED
    BY <2>2, <2>3
<1>5. CASE v.nums = w.nums
  <2>1. LessThan(v, w) <=> Weight(v) < Weight(w)
    BY <1>1, <1>5 DEF LessThan, Weight, Digits
  <2> QED
    BY <1>3, <1>4, <2>1
<1>6. CASE v.nums # w.nums
  <2>1. TupleLess(v.nums, w.nums) => Weight(v) < Weight(w)
    BY <1>1, <1>6 DEF TupleLess, Weight, Digits
  <2>2. TupleLess(w.nums, v.nums) => Weight(w) < Weight(v)
    BY <1>1, <1>6 DEF TupleLess, Weight, Digits
  <2>3. TupleLess(v.nums, w.nums) \/ TupleLess(w.nums, v.nums)
    BY <1>1, <1>6 DEF TupleLess
  <2>4. Weight(w) \in Nat
    BY <1>1 DEF Weight
  <2>5. LessThan(v, w) <=> Weight(v) < Weight(w)
    BY <1>3, <1>6, <2>1, <2>2, <2>3, <2>4 DEF LessThan
  <2> QED
    BY <1>3, <1>4, <2>5
<1> QED
  BY <1>5, <1>6

LEMMA WhatIsOffered ==
  ASSUME UpdateInv, \A t \in Tags : Digits(t)
  PROVE  OffersOnlyNewer
<1>1. \A t \in Tags : IsTag(t) /\ Digits(t)
  BY UpdateAssumption DEF IsTag
<1>2. running \in Tags /\ checker.latest \in Tags \cup {NoVersion}
  BY DEF UpdateInv, UpdateTypes
<1>3. ASSUME NEW v \in Tags
      PROVE  IsNewer(running, v) <=> /\ running.parsed /\ v.parsed /\ running.pre = 0
                                     /\ Weight(running) \in 100 .. Weight(v) - 1
  <2>1. /\ Weight(running) \in Nat /\ Weight(v) \in Nat
        /\ LessThan(running, v) <=> Weight(running) < Weight(v)
        /\ running.pre = 0 => (IsRelease(running) <=> Weight(running) >= 100)
    BY <1>1, <1>2, Weighed
  <2>2. IsRelease(running) <=> running.pre = 0 /\ Weight(running) >= 100
    BY <2>1 DEF IsRelease
  <2>3. running.parsed \in BOOLEAN /\ v.parsed \in BOOLEAN
    BY <1>1, <1>2 DEF IsTag
  <2>4. Weight(running) \in 100 .. Weight(v) - 1
          <=> Weight(running) >= 100 /\ Weight(running) < Weight(v)
    BY <2>1
  <2> QED
    BY <2>1, <2>2, <2>3, <2>4 DEF IsNewer
<1>4. UpdateOffered => running.pre = 0 /\ Weight(running) < Weight(checker.latest)
  <2> SUFFICES ASSUME IsNewer(running, checker.latest)
               PROVE  running.pre = 0 /\ Weight(running) < Weight(checker.latest)
    BY DEF UpdateOffered
  <2>1. checker.latest.parsed
    BY DEF IsNewer
  <2>2. checker.latest \in Tags
    BY <1>2, <2>1 DEF NoVersion
  <2>3. Weight(running) \in 100 .. Weight(checker.latest) - 1 /\ running.pre = 0
    BY <1>3, <2>2
  <2>4. Weight(running) \in Nat /\ Weight(checker.latest) \in Nat
    BY <1>1, <1>2, <2>2, Weighed
  <2> QED
    BY <2>3, <2>4
<1> QED
  BY <1>3, <1>4 DEF OffersOnlyNewer

\* Whatever was installed and whatever the checker saw, what is offered is a
\* later release than the one that runs.
THEOREM OffersAreNewer ==
  ASSUME \A t \in Tags : Digits(t)
  PROVE  UpdateSpec => []OffersOnlyNewer
<1>1. UpdateInv => OffersOnlyNewer
  BY WhatIsOffered
<1> QED
  BY <1>1, UpdateInvariance, PTL

-----------------------------------------------------------------------------
(*************************** the parts together ****************************)

\* A step of one part is a step of that part alone.
LEMMA PartSteps ==
  ASSUME [Next]_vars
  PROVE  [AcmeNext]_acmeVars /\ [UpdateNext]_updateVars /\ [AccountNext]_accountVars
BY DEF Next, OfAcme, OfUpdates, OfAccounts, vars

LEMMA PartsBegin == Init => AcmeInit /\ UpdateInit /\ AccountInit
BY DEF Init

\* The exchange with the authority, the updater and the accounts keep to their
\* types, side by side.
THEOREM PanelTyped == Spec => []TypeOK
<1>1. UpdateInv => UpdateTypeOK
  BY UpdateTyped DEF UpdateInv
<1>2. VaultInv => AccountTypeOK
  BY VaultTyped
<1>3. /\ AcmeInit => IInv
      /\ IInv /\ [AcmeNext]_acmeVars => IInv'
      /\ IInv => AcmeTypeOK
  BY TypeInit, StateInit, NonceStep, StateStep, TypesHold DEF IInv, TInv
<1>4. Spec => [](AcmeTypeOK /\ UpdateTypeOK /\ AccountTypeOK)
  BY PartSteps, PartsBegin, <1>3, UpdateBegins, UpdateStep, <1>1,
     VaultBegins, VaultStep, <1>2, PTL DEF Spec
<1> QED
  BY <1>4, PTL DEF TypeOK

\* What each part keeps to alone holds of them side by side: the token of an
\* issuance stands while the authority may come for it, a refused call is tried
\* again with the nonce its refusal carried, an installer at work is recorded,
\* a success has its evidence, only later releases are offered, what was sealed
\* stays readable and tokens are honoured.
THEOREM PanelKeepsItsWord ==
  ASSUME \A t \in Tags : Digits(t)
  PROVE  Spec => [](/\ TokenStands /\ RetryUsesCarried
                    /\ InstallerIsRecorded /\ OffersOnlyNewer
                    /\ SealedReadable /\ TokensHonoured)
                /\ SuccessHasEvidence
<1>1. Spec => [](TokenStands /\ RetryUsesCarried)
  <2>1. /\ AcmeInit => IInv /\ RetryInv
        /\ IInv /\ RetryInv /\ [AcmeNext]_acmeVars => IInv' /\ RetryInv'
    <3>1. AcmeInit => IInv
      BY TypeInit, StateInit DEF IInv
    <3>2. AcmeInit => RetryInv
      BY DEF AcmeInit, RetryInv, RetryUsesCarried
    <3>3. IInv /\ [AcmeNext]_acmeVars => IInv'
      BY NonceStep, StateStep DEF IInv, TInv
    <3>4. IInv /\ RetryInv /\ [AcmeNext]_acmeVars => RetryInv'
      BY RetryStep DEF IInv
    <3> QED BY <3>1, <3>2, <3>3, <3>4
  <2>2. IInv /\ RetryInv => TokenStands /\ RetryUsesCarried
    BY DEF IInv, ShowInv, Shown, Signed, TokenStands, RetryInv
  <2> QED
    BY PartSteps, PartsBegin, <2>1, <2>2, PTL DEF Spec
<1>2. Spec => [](InstallerIsRecorded /\ OffersOnlyNewer) /\ SuccessHasEvidence
  <2>1. Spec => []UpdateInv /\ [][UpdateNext]_updateVars
    BY PartSteps, PartsBegin, UpdateBegins, UpdateStep, PTL DEF Spec
  <2>2. UpdateInv => InstallerIsRecorded /\ OffersOnlyNewer
    BY WhatIsOffered DEF UpdateInv
  <2>3. UpdateInv /\ [UpdateNext]_updateVars => [SuccessStep]_updateVars
    BY UpdateStep
  <2> QED
    BY <2>1, <2>2, <2>3, PTL DEF SuccessHasEvidence, SuccessStep
<1>3. Spec => [](SealedReadable /\ TokensHonoured)
  <2>1. Spec => AccountSpec
    BY PartSteps, PartsBegin, PTL DEF Spec, AccountSpec
  <2> QED
    BY <2>1, SealedStaysReadable, TokensStayHonoured, PTL
<1> QED
  BY <1>1, <1>2, <1>3, PTL

\* Beside the updater and the accounts the exchange with the authority is still
\* an issuance: granted only to a proved name, its token on show only while it
\* runs.
THEOREM PanelIssues ==
  Spec => Exchange!Init /\ [][Exchange!Next]_<<IF at = "begin" THEN "idle"
                           ELSE IF at \in {"granted", "failed"} THEN at ELSE "running",
                           token, authz = "valid">>
<1>1. Spec => AcmeInit /\ [][AcmeNext]_acmeVars
  BY PartSteps, PartsBegin, PTL DEF Spec
<1>2. AcmeInit => Exchange!Init /\ IInv
  BY TypeInit, StateInit DEF AcmeInit, Exchange!Init, IInv
<1>3. IInv /\ [AcmeNext]_acmeVars => IInv'
  BY NonceStep, StateStep DEF IInv, TInv
<1> QED
  BY <1>1, <1>2, <1>3, IssuanceStep, PTL
=============================================================================
