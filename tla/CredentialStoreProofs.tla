------------------------- MODULE CredentialStoreProofs -------------------------
(***************************************************************************)
(* Proofs about CredentialStore: no credential is committed under a key    *)
(* that nobody has stored, and no reader ever gets a wrong secret.         *)
(***************************************************************************)
EXTENDS CredentialStore, TLAPS

(* Sorts and constants, in the form the steps need them. *)
LEMMA KeyTypes ==
    /\ NoKey \notin Key
    /\ \A k \in Key \union {NoKey} : k \in Nat /\ k <= MaxKeys
    /\ \A k \in 0 .. MaxKeys : k \in Key \union {NoKey}
    /\ Empty \in Stored
  BY CredentialAssumption DEF Key, NoKey, Empty, Stored

LEMMA InitIInv == Init => IInv
<1> SUFFICES ASSUME Init PROVE IInv
  OBVIOUS
<1>1. TypeOK
  BY CredentialAssumption DEF Init, TypeOK, Stored, Key, NoKey
<1>2. KeyInv /\ SeenInv
  BY DEF Init, KeyInv, SeenInv, NoKey
<1>3. TextInv /\ KeysAreStored
  BY DEF Init, TextInv, KeysAreStored
<1> QED
  BY <1>1, <1>2, <1>3 DEF IInv

-----------------------------------------------------------------------------
(* A step in which one transaction t becomes u, with a key it may have made
   and fields it may have written. *)
LEMMA OwnStepIInv ==
    ASSUME IInv, NEW s \in Session, NEW t \in tx[s], NEW u \in Txn,
           tx' = [tx EXCEPT ![s] = {u}],
           UNCHANGED <<key, cred, entered, removed, acts>>,
           generated' \in generated .. MaxKeys,
           u.seen = t.seen,
           \/ u.made = t.made
           \/ /\ key = NoKey /\ t.seen = NoKey /\ u.made <= generated'
              /\ Insertable(s),
           \A f \in Field :
                /\ u.cred[f].under \in {NoKey, u.seen, u.made} \union removed
                /\ u.cred[f].text = u.entered[f]
    PROVE  IInv'
<1> USE DEF IInv
<1>1. tx'[s] = {u} /\ \A r \in Session \ {s} : tx'[r] = tx[r]
  BY DEF TypeOK
<1>2. TypeOK'
  <2>1. tx' \in [Session -> SUBSET Txn]
    BY DEF TypeOK
  <2>2. \A r \in Session : \A v \in tx'[r] : tx'[r] = {v}
    BY <1>1 DEF TypeOK
  <2>3. generated' \in 0 .. MaxKeys
    BY CredentialAssumption DEF TypeOK
  <2> QED
    BY <2>1, <2>2, <2>3 DEF TypeOK
<1>3. generated \in Nat /\ generated' \in Nat /\ generated <= generated'
  BY CredentialAssumption DEF TypeOK
<1>4. KeyInv'
  <2>1. key' <= generated' /\ removed' \subseteq 0 .. generated'
    BY <1>3, KeyTypes DEF KeyInv, TypeOK
  <2>2. ASSUME NEW r \in Session, NEW v \in tx'[r], v.made # NoKey
        PROVE  /\ key' = NoKey /\ v.seen = NoKey /\ v.made <= generated'
               /\ \A q \in Session : \A w \in tx'[q] : w.made # NoKey => q = r
    <3>1. v \in Txn /\ v.made \in Nat
      BY <1>1, KeyTypes DEF TypeOK, Txn
    <3>2. CASE r = s /\ u.made # t.made
      BY <1>1, <2>2, <3>1, <3>2 DEF Insertable
    <3>3. CASE r = s /\ u.made = t.made
      BY <1>1, <1>3, <2>2, <3>1, <3>3 DEF KeyInv
    <3>4. CASE r # s
      <4>1. v \in tx[r]
        BY <1>1, <3>4
      <4>2. u.made = t.made
        BY <2>2, <3>4, <4>1 DEF Insertable
      <4> QED
        BY <1>1, <1>3, <2>2, <3>1, <3>4, <4>1, <4>2 DEF KeyInv
    <3> QED
      BY <3>2, <3>3, <3>4
  <2> QED
    BY <2>1, <2>2 DEF KeyInv
<1>5. SeenInv'
  BY <1>1 DEF SeenInv
<1>6. TextInv' /\ KeysAreStored'
  BY <1>1 DEF TextInv, KeysAreStored
<1> QED
  BY <1>2, <1>4, <1>5, <1>6

(* _get_or_create_key: what the transaction is after it. *)
LEMMA GetKeyStep ==
    ASSUME IInv, NEW s \in Session, NEW t \in tx[s], GetKey(s, t)
    PROVE  /\ t \in Txn /\ WithKey(t) \in Txn
           /\ OwnKey(WithKey(t)) \in Key
           /\ OwnKey(WithKey(t)) \in {WithKey(t).seen, WithKey(t).made}
           /\ WithKey(t).cred = t.cred /\ WithKey(t).entered = t.entered
           /\ WithKey(t).seen = t.seen
           /\ generated' \in generated .. MaxKeys
           /\ \/ WithKey(t).made = t.made
              \/ /\ key = NoKey /\ t.seen = NoKey /\ t.made = NoKey
                 /\ WithKey(t).made <= generated'
                 /\ Insertable(s)
<1>1. t \in Txn /\ generated \in 0 .. MaxKeys /\ MaxKeys \in Nat
  BY CredentialAssumption DEF IInv, TypeOK
<1>2. t.seen \in Key \union {NoKey} /\ t.made \in Key \union {NoKey}
  BY <1>1 DEF Txn
<1>3. CASE OwnKey(t) # NoKey
  BY <1>1, <1>2, <1>3 DEF GetKey, WithKey, OwnKey
<1>4. CASE OwnKey(t) = NoKey
  <2>1. t.made = NoKey /\ t.seen = NoKey
    BY <1>4 DEF OwnKey
  <2>2. generated + 1 \in Key /\ generated' = generated + 1
    BY <1>1, <1>4 DEF GetKey, MayGetKey, Key
  <2>3. WithKey(t) = [t EXCEPT !.made = generated + 1]
    BY <1>4 DEF WithKey
  <2>4. WithKey(t) \in Txn
    BY <1>1, <2>2, <2>3 DEF Txn
  <2>5. WithKey(t).made = generated + 1 /\ OwnKey(WithKey(t)) = generated + 1
    BY <1>1, <2>2, <2>3, KeyTypes DEF Txn, OwnKey
  <2>6. key = NoKey /\ Insertable(s)
    BY <1>4 DEF GetKey, MayGetKey
  <2>7. /\ WithKey(t).cred = t.cred /\ WithKey(t).entered = t.entered
        /\ WithKey(t).seen = t.seen
    BY <1>1, <2>3 DEF Txn
  <2>8. generated' \in generated .. MaxKeys
    BY <1>1, <2>2, KeyTypes
  <2> QED
    BY <1>1, <2>1, <2>2, <2>4, <2>5, <2>6, <2>7, <2>8
<1> QED
  BY <1>3, <1>4

(* The text stays, and a key is the transaction's own. *)
LEMMA EncryptedIs ==
    ASSUME NEW v \in Stored, NEW k \in Key
    PROVE  /\ Encrypted(v, k) \in Stored
           /\ Encrypted(v, k).text = v.text
           /\ Encrypted(v, k).under \in {v.under, k}
           /\ ~NeedsKey(v) => Encrypted(v, k) = v
  BY DEF Encrypted, NeedsKey, LooksEncrypted, Stored, Empty

LEMMA PutIInv ==
    ASSUME IInv, NEW s \in Session, NEW f \in Field, NEW v \in Stored,
           NEW secret \in Secret \union {NoSecret}, v.text = secret,
           \A t \in tx[s] : v.under \in {NoKey, t.seen, t.made} \union removed,
           Put(s, f, v, secret)
    PROVE  IInv'
<1> DEFINE After(t) == IF NeedsKey(v) THEN WithKey(t) ELSE t
           Written(t) == [After(t) EXCEPT !.cred[f] = Encrypted(v, OwnKey(After(t))),
                                          !.entered[f] = secret,
                                          !.wrote = @ \union {f}]
<1>1. PICK t \in tx[s] :
        /\ IF NeedsKey(v) THEN GetKey(s, t) ELSE UNCHANGED generated
        /\ tx' = [tx EXCEPT ![s] = {Written(t)}]
        /\ UNCHANGED <<key, cred, entered, removed, acts>>
  BY DEF Put
<1>2. t \in Txn /\ generated \in 0 .. MaxKeys
  BY DEF IInv, TypeOK
<1>3. /\ After(t) \in Txn
      /\ After(t).cred = t.cred /\ After(t).entered = t.entered
      /\ After(t).seen = t.seen
      /\ generated' \in generated .. MaxKeys
      /\ \/ After(t).made = t.made
         \/ /\ key = NoKey /\ t.seen = NoKey /\ t.made = NoKey
            /\ After(t).made <= generated'
            /\ Insertable(s)
  <2>1. CASE NeedsKey(v)
    BY <1>1, <2>1, GetKeyStep
  <2>2. CASE ~NeedsKey(v)
    BY <1>1, <1>2, <2>2, CredentialAssumption
  <2> QED
    BY <2>1, <2>2
<1>4. /\ Encrypted(v, OwnKey(After(t))) \in Stored
      /\ Encrypted(v, OwnKey(After(t))).text = secret
      /\ Encrypted(v, OwnKey(After(t))).under
            \in {v.under, After(t).seen, After(t).made}
  <2>1. CASE NeedsKey(v)
    <3>1. /\ OwnKey(After(t)) \in Key
          /\ OwnKey(After(t)) \in {After(t).seen, After(t).made}
      BY <1>1, <2>1, GetKeyStep
    <3> QED
      BY <3>1, EncryptedIs
  <2>2. CASE ~NeedsKey(v)
    BY <2>2 DEF NeedsKey, Encrypted
  <2> QED
    BY <2>1, <2>2
<1> HIDE DEF After
<1>5. Written(t) \in Txn
  BY <1>3, <1>4 DEF Txn
<1>6. /\ Written(t).seen = t.seen /\ Written(t).made = After(t).made
      /\ Written(t).cred = [t.cred EXCEPT ![f] = Encrypted(v, OwnKey(After(t)))]
      /\ Written(t).entered = [t.entered EXCEPT ![f] = secret]
  BY <1>3 DEF Txn
<1>7. t.cred \in [Field -> Stored] /\ t.entered \in [Field -> Secret \union {NoSecret}]
  BY <1>2 DEF Txn
<1>8. v.under \in {NoKey, t.seen, After(t).made} \union removed
  BY <1>3
<1>9. ASSUME NEW g \in Field
      PROVE  /\ Written(t).cred[g].under
                    \in {NoKey, Written(t).seen, Written(t).made} \union removed
             /\ Written(t).cred[g].text = Written(t).entered[g]
  <2>1. CASE g = f
    BY <1>3, <1>4, <1>6, <1>7, <1>8, <2>1
  <2>2. CASE g # f
    <3>1. /\ Written(t).cred[g] = t.cred[g]
          /\ Written(t).entered[g] = t.entered[g]
      BY <1>6, <1>7, <2>2
    <3>2. /\ t.cred[g].under \in {NoKey, t.seen, t.made} \union removed
          /\ t.cred[g].text = t.entered[g]
      BY DEF IInv, SeenInv, TextInv
    <3> QED
      BY <1>3, <1>6, <3>1, <3>2
  <2> QED
    BY <2>1, <2>2
<1>10. \/ Written(t).made = t.made
       \/ /\ key = NoKey /\ t.seen = NoKey /\ Written(t).made <= generated'
          /\ Insertable(s)
  BY <1>3, <1>6
<1>11. tx' = [tx EXCEPT ![s] = {Written(t)}]
  BY <1>1
<1>12. UNCHANGED <<key, cred, entered, removed, acts>>
  BY <1>1
<1>13. generated' \in generated .. MaxKeys /\ Written(t).seen = t.seen
  BY <1>3, <1>6
<1> HIDE DEF Written
<1> QED
  BY <1>5, <1>9, <1>10, <1>11, <1>12, <1>13, OwnStepIInv

-----------------------------------------------------------------------------
(* The actions *)

LEMMA BeginIInv ==
    ASSUME IInv, NEW s \in Session, Begin(s)
    PROVE  IInv'
<1> DEFINE u == [seen |-> key, made |-> NoKey, cred |-> cred,
                 entered |-> entered, wrote |-> {}, outdated |-> {}]
<1> USE DEF IInv
<1>1. u \in Txn
  BY DEF TypeOK, Txn
<1>2. tx' = [tx EXCEPT ![s] = {u}] /\ tx[s] = {}
      /\ UNCHANGED <<key, cred, entered, generated, removed, acts>>
  BY DEF Begin
<1>3. /\ u.seen = key /\ u.made = NoKey
      /\ u.cred = cred /\ u.entered = entered
  OBVIOUS
<1> HIDE DEF u
<1>4. tx'[s] = {u} /\ \A r \in Session \ {s} : tx'[r] = tx[r]
  BY <1>2 DEF TypeOK
<1>5. TypeOK'
  BY <1>1, <1>2, <1>4 DEF TypeOK
<1>6. KeyInv'
  BY <1>2, <1>3, <1>4 DEF KeyInv
<1>7. SeenInv'
  BY <1>2, <1>3, <1>4 DEF SeenInv, KeysAreStored
<1>8. TextInv' /\ KeysAreStored'
  BY <1>2, <1>3, <1>4 DEF TextInv, KeysAreStored
<1> QED
  BY <1>5, <1>6, <1>7, <1>8

LEMMA SaveIInv ==
    ASSUME IInv, NEW s \in Session, NEW f \in Field, NEW secret \in Secret,
           Save(s, f, secret)
    PROVE  IInv'
<1>1. [under |-> NoKey, text |-> secret] \in Stored
  BY DEF Stored
<1> QED
  BY <1>1, PutIInv DEF Save

LEMMA DuplicateIInv ==
    ASSUME IInv, NEW s \in Session, NEW f \in Field, NEW g \in Field,
           Duplicate(s, f, g)
    PROVE  IInv'
<1>1. PICK t \in tx[s] : Put(s, g, t.cred[f], t.entered[f])
  BY DEF Duplicate
<1>2. /\ t \in Txn /\ tx[s] = {t}
      /\ t.cred[f].under \in {NoKey, t.seen, t.made} \union removed
      /\ t.cred[f].text = t.entered[f]
  BY DEF IInv, TypeOK, SeenInv, TextInv
<1>3. t.cred[f] \in Stored /\ t.entered[f] \in Secret \union {NoSecret}
  BY <1>2 DEF Txn
<1>4. \A v \in tx[s] : t.cred[f].under \in {NoKey, v.seen, v.made} \union removed
  BY <1>2
<1> QED
  BY <1>1, <1>2, <1>3, <1>4, PutIInv

LEMMA ReadIInv ==
    ASSUME IInv, NEW s \in Session, NEW f \in Field, Read(s, f)
    PROVE  IInv'
<1>1. PICK t \in tx[s] :
        /\ GetKey(s, t)
        /\ tx' = [tx EXCEPT ![s] = {WithKey(t)}]
        /\ UNCHANGED <<key, cred, entered, removed, acts>>
  BY DEF Read
<1>2. \A g \in Field :
        /\ t.cred[g].under \in {NoKey, t.seen, t.made} \union removed
        /\ t.cred[g].text = t.entered[g]
  BY DEF IInv, SeenInv, TextInv
<1>3. /\ WithKey(t) \in Txn /\ WithKey(t).seen = t.seen
      /\ WithKey(t).cred = t.cred /\ WithKey(t).entered = t.entered
      /\ generated' \in generated .. MaxKeys
      /\ \/ WithKey(t).made = t.made
         \/ /\ key = NoKey /\ t.seen = NoKey /\ t.made = NoKey
            /\ WithKey(t).made <= generated'
            /\ Insertable(s)
  BY <1>1, GetKeyStep
<1>4. \A g \in Field :
        /\ WithKey(t).cred[g].under
                \in {NoKey, WithKey(t).seen, WithKey(t).made} \union removed
        /\ WithKey(t).cred[g].text = WithKey(t).entered[g]
  BY <1>2, <1>3
<1> QED
  BY <1>1, <1>3, <1>4, OwnStepIInv

(* A key that is committed is the only one, and those who see none yet wait. *)
LEMMA CommitIInv ==
    ASSUME IInv, NEW s \in Session, Commit(s)
    PROVE  IInv'
<1> USE DEF IInv
<1>1. PICK t \in tx[s] :
        /\ key' = IF t.made # NoKey THEN t.made ELSE key
        /\ cred' = [f \in Field |-> IF f \in t.wrote THEN t.cred[f] ELSE cred[f]]
        /\ entered' = [f \in Field |-> IF f \in t.wrote THEN t.entered[f]
                                       ELSE entered[f]]
        /\ tx' = [r \in Session |->
                    IF r = s THEN {}
                    ELSE {[u EXCEPT !.outdated = @ \union t.wrote] : u \in tx[r]}]
        /\ UNCHANGED <<generated, removed, acts>>
  BY DEF Commit
<1>2. t \in Txn
  BY DEF TypeOK
<1>3. ASSUME NEW r \in Session, NEW v \in tx'[r]
      PROVE  r # s /\ v \in Txn
             /\ \E u \in tx[r] :
                    /\ v.seen = u.seen /\ v.made = u.made
                    /\ v.cred = u.cred /\ v.entered = u.entered
                    /\ tx'[r] = {v}
  <2>1. r # s
    BY <1>1, <1>3
  <2>2. tx'[r] = {[u EXCEPT !.outdated = @ \union t.wrote] : u \in tx[r]}
    BY <1>1, <2>1
  <2>3. PICK u \in tx[r] : v = [u EXCEPT !.outdated = @ \union t.wrote]
    BY <1>3, <2>2
  <2>4. u \in Txn /\ tx[r] = {u}
    BY DEF TypeOK
  <2>5. v \in Txn /\ tx'[r] = {v}
    BY <1>2, <2>2, <2>3, <2>4 DEF Txn
  <2>6. /\ v.seen = u.seen /\ v.made = u.made
        /\ v.cred = u.cred /\ v.entered = u.entered
    BY <2>3, <2>4 DEF Txn
  <2> QED
    BY <2>1, <2>5, <2>6
<1>4. /\ t.made # NoKey => key = NoKey /\ t.seen = NoKey /\ t.made <= generated
      /\ t.made # NoKey =>
            \A r \in Session \ {s} : \A u \in tx[r] : u.made = NoKey
      /\ t.seen \in {NoKey, key} \union removed
      /\ \A f \in Field : /\ t.cred[f].under \in {NoKey, t.seen, t.made} \union removed
                           /\ t.cred[f].text = t.entered[f]
  BY DEF KeyInv, SeenInv, TextInv
<1>5. TypeOK'
  <2>1. cred' \in [Field -> Stored] /\ entered' \in [Field -> Secret \union {NoSecret}]
    BY <1>1, <1>2 DEF TypeOK, Txn
  <2>2. key' \in Key \union {NoKey}
    BY <1>1, <1>2 DEF TypeOK, Txn
  <2>3. tx' \in [Session -> SUBSET Txn]
    <3>1. \A r \in Session : tx'[r] \in SUBSET Txn
      BY <1>3
    <3> QED
      BY <1>1, <3>1
  <2>4. \A r \in Session : \A v \in tx'[r] : tx'[r] = {v}
    BY <1>3
  <2> QED
    BY <1>1, <2>1, <2>2, <2>3, <2>4 DEF TypeOK
<1>6. KeyInv'
  <2>1. key' <= generated' /\ removed' \subseteq 0 .. generated'
    BY <1>1, <1>4 DEF KeyInv
  <2>2. ASSUME NEW r \in Session, NEW v \in tx'[r], v.made # NoKey
        PROVE  /\ key' = NoKey /\ v.seen = NoKey /\ v.made <= generated'
               /\ \A q \in Session : \A w \in tx'[q] : w.made # NoKey => q = r
    BY <1>1, <1>3, <1>4, <2>2 DEF KeyInv
  <2> QED
    BY <2>1, <2>2 DEF KeyInv
<1>7. SeenInv'
  BY <1>1, <1>3, <1>4 DEF SeenInv
<1>8. TextInv'
  BY <1>1, <1>3, <1>4 DEF TextInv
<1>9. KeysAreStored'
  BY <1>1, <1>4 DEF KeysAreStored
<1> QED
  BY <1>5, <1>6, <1>7, <1>8, <1>9

LEMMA RollbackIInv ==
    ASSUME IInv, NEW s \in Session, Rollback(s)
    PROVE  IInv'
<1> USE DEF IInv
<1>1. /\ \A r \in Session : tx'[r] \subseteq tx[r]
      /\ \A r \in Session : tx'[r] \in {tx[r], {}}
      /\ tx' \in [Session -> SUBSET Txn]
      /\ UNCHANGED <<key, cred, entered, generated, removed, acts>>
  BY DEF Rollback, TypeOK
<1>2. TypeOK'
  BY <1>1 DEF TypeOK
<1>3. KeyInv' /\ SeenInv'
  BY <1>1 DEF KeyInv, SeenInv
<1>4. TextInv' /\ KeysAreStored'
  BY <1>1 DEF TextInv, KeysAreStored
<1> QED
  BY <1>2, <1>3, <1>4

LEMMA AdminSetsIInv ==
    ASSUME IInv, NEW k \in Key \union {NoKey}, AdminSets(k)
    PROVE  IInv'
<1> USE DEF IInv
<1>1. /\ key # NoKey /\ key' = k /\ k \in removed \union {NoKey}
      /\ removed' = removed \union {key}
      /\ acts' = acts + 1 /\ acts < MaxAdminActs
      /\ UNCHANGED <<cred, entered, tx, generated>>
  BY DEF AdminSets
<1>2. TypeOK'
  <2>1. key \in Key
    BY <1>1 DEF TypeOK
  <2>2. acts' \in 0 .. MaxAdminActs
    BY <1>1, CredentialAssumption DEF TypeOK
  <2> QED
    BY <1>1, <2>1, <2>2 DEF TypeOK
<1>3. KeyInv'
  <2>1. key' <= generated' /\ removed' \subseteq 0 .. generated'
    BY <1>1, CredentialAssumption DEF KeyInv, TypeOK, Key, NoKey
  <2> QED
    BY <1>1, <2>1 DEF KeyInv
<1>4. SeenInv' /\ TextInv' /\ KeysAreStored'
  BY <1>1 DEF SeenInv, TextInv, KeysAreStored
<1> QED
  BY <1>2, <1>3, <1>4

LEMMA NextIInv == IInv /\ [Next]_vars => IInv'
<1> SUFFICES ASSUME IInv, [Next]_vars PROVE IInv'
  OBVIOUS
<1>1. ASSUME NEW s \in Session, Begin(s) \/ Commit(s) \/ Rollback(s)
      PROVE  IInv'
  BY <1>1, BeginIInv, CommitIInv, RollbackIInv
<1>2. ASSUME NEW s \in Session, NEW f \in Field,
             \/ \E secret \in Secret : Save(s, f, secret)
             \/ \E g \in Field : Duplicate(s, f, g)
             \/ Read(s, f)
      PROVE  IInv'
  BY <1>2, SaveIInv, DuplicateIInv, ReadIInv
<1>3. ASSUME NEW k \in Key \union {NoKey}, AdminSets(k) PROVE IInv'
  BY <1>3, AdminSetsIInv
<1>4. CASE UNCHANGED vars
  BY <1>4 DEF vars, IInv, TypeOK, KeyInv, SeenInv, TextInv, KeysAreStored
<1> QED
  BY <1>1, <1>2, <1>3, <1>4 DEF Next

-----------------------------------------------------------------------------
(* Results *)

(* The inductive invariant holds in every state (credential_store.py, whole). *)
THEOREM CredentialInvariant == Spec => []IInv
<1> QED
  BY InitIInv, NextIInv, PTL DEF Spec

(* The variables keep their types and a session has one transaction at a time. *)
THEOREM CredentialTypes == Spec => []TypeOK
<1>1. IInv => TypeOK
  BY DEF IInv
<1> QED
  BY <1>1, CredentialInvariant, PTL

(* However many sessions create the master key at once, no credential is
   committed under a key that is not stored, unless an administrator took it
   away (credential_store.py:35-43). *)
THEOREM NothingUnderAnUnstoredKey == Spec => []KeysAreStored
<1>1. IInv => KeysAreStored
  BY DEF IInv
<1> QED
  BY <1>1, CredentialInvariant, PTL

(* A reader gets the secret that was entered, or an error for one of the two
   reasons (credential_store.py:55, 83-106). *)
THEOREM ReadersGetWhatWasEntered == Spec => []ReadsWhatWasEntered
<1>1. IInv => ReadsWhatWasEntered
  <2> SUFFICES ASSUME IInv, NEW s \in Session, NEW f \in Field, NEW t \in tx[s]
               PROVE  \/ Answer(t, f) = {t.entered[f]}
                      \/ /\ Answer(t, f) = {}
                         /\ t.cred[f].under \in removed \/ t.entered[f] \in Prefixed
    BY DEF ReadsWhatWasEntered
  <2>1. /\ t.cred[f].under \in {NoKey, t.seen, t.made} \union removed
        /\ t.cred[f].text = t.entered[f]
        /\ t.made # NoKey => t.seen = NoKey
    BY DEF IInv, SeenInv, TextInv, KeyInv
  <2>2. CASE ~LooksEncrypted(t.cred[f])
    BY <2>1, <2>2 DEF Answer, Decrypted
  <2>3. CASE LooksEncrypted(t.cred[f]) /\ t.cred[f].under = NoKey
    BY <2>1, <2>3 DEF Answer, Decrypted, LooksEncrypted
  <2>4. CASE t.cred[f].under # NoKey
    <3>1. t.cred[f].under = OwnKey(t) \/ t.cred[f].under \in removed
      BY <2>1, <2>4 DEF OwnKey
    <3> QED
      BY <2>1, <2>4, <3>1 DEF Answer, Decrypted
  <2> QED
    BY <2>2, <2>3, <2>4
<1> QED
  BY <1>1, CredentialInvariant, PTL
================================================================================
