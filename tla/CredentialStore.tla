---------------------------- MODULE CredentialStore ----------------------------
(***************************************************************************)
(* The credentials of the connectors, encrypted at rest: the master key in  *)
(* ir.config_parameter, which the first transaction that needs it creates,  *)
(* and the credential fields, which users save and transports read.         *)
(*                                                                          *)
(* A transaction works on the snapshot of its first statement.  The INSERT  *)
(* of the key waits for another transaction's INSERT of it, and is refused  *)
(* when that one has been committed (UNIQUE(key) of ir.config_parameter).   *)
(* A field that another transaction wrote after the snapshot cannot be      *)
(* written.                                                                 *)
(***************************************************************************)
EXTENDS Naturals

CONSTANTS
    Field,          \* credential fields of the connectors
    Session,        \* users and crons, each with one transaction at a time
    Secret,         \* what users enter
    Prefixed,       \* the secrets among them that begin with 'enc:'
    TokenText,      \* the text of a token, when it is taken for a secret
    NoSecret,       \* an empty field
    MaxKeys,        \* bound: keys generated
    MaxAdminActs    \* bound: what administrators do to the key

NoKey == 0
Key == 1 .. MaxKeys

ASSUME CredentialAssumption ==
    /\ Prefixed \subseteq Secret
    /\ TokenText \notin Secret /\ NoSecret \notin Secret \union {TokenText}
    /\ MaxKeys \in Nat /\ MaxAdminActs \in Nat

(* A field holds a token under a key, or, under no key, the text itself: none,
   what an older version saved, or what begins with 'enc:' by itself. *)
Stored == [under : Key \union {NoKey}, text : Secret \union {TokenText, NoSecret}]

Empty == [under |-> NoKey, text |-> NoSecret]

VARIABLES
    key,        \* stock_3pl_core.credential_key as committed
    cred,       \* cred[f]: the committed field
    entered,    \* entered[f]: the secret whose saving was committed last
    tx,         \* tx[s]: {} or the open transaction of s
    generated,  \* how many keys were generated
    removed,    \* keys an administrator has removed or replaced
    acts

vars == <<key, cred, entered, tx, generated, removed, acts>>

Txn == [seen : Key \union {NoKey},      \* the key in the snapshot
        made : Key \union {NoKey},      \* the key it has inserted
        cred : [Field -> Stored],       \* the fields, its own writes included
        entered : [Field -> Secret \union {NoSecret}],
        wrote : SUBSET Field,
        outdated : SUBSET Field]        \* written by others since the snapshot

(* Types; a session has at most one transaction. *)
TypeOK ==
    /\ key \in Key \union {NoKey}
    /\ cred \in [Field -> Stored]
    /\ entered \in [Field -> Secret \union {NoSecret}]
    /\ tx \in [Session -> SUBSET Txn]
    /\ \A s \in Session : \A t \in tx[s] : tx[s] = {t}
    /\ generated \in 0 .. MaxKeys
    /\ removed \subseteq Key
    /\ acts \in 0 .. MaxAdminActs

(* Connectors as the addon finds them: some saved before it encrypted anything. *)
Init ==
    /\ key = NoKey /\ generated = 0 /\ removed = {} /\ acts = 0
    /\ entered \in [Field -> (Secret \ Prefixed) \union {NoSecret}]
    /\ cred = [f \in Field |-> [under |-> NoKey, text |-> entered[f]]]
    /\ tx = [s \in Session |-> {}]

Begin(s) ==
    /\ tx[s] = {}
    /\ tx' = [tx EXCEPT ![s] = {[seen |-> key, made |-> NoKey, cred |-> cred,
                                 entered |-> entered, wrote |-> {}, outdated |-> {}]}]
    /\ UNCHANGED <<key, cred, entered, generated, removed, acts>>

-----------------------------------------------------------------------------
(* credential_store *)

(* The master key as the transaction sees it. *)
OwnKey(t) == IF t.made # NoKey THEN t.made ELSE t.seen

BugInsertsAtOnce(s) == TRUE     \* seeded fault: the INSERT waits for nobody
Insertable(s) == \A r \in Session \ {s} : \A t \in tx[r] : t.made = NoKey

(* The transaction after _get_or_create_key. *)
WithKey(t) == IF OwnKey(t) # NoKey THEN t ELSE [t EXCEPT !.made = generated + 1]

BugReplacesKey(s, t) ==         \* seeded fault: a committed key is written over
    OwnKey(t) = NoKey => Insertable(s) /\ generated < MaxKeys
MayGetKey(s, t) ==
    OwnKey(t) = NoKey => Insertable(s) /\ key = NoKey /\ generated < MaxKeys

GetKey(s, t) ==
    /\ MayGetKey(s, t)
    /\ generated' = IF OwnKey(t) = NoKey THEN generated + 1 ELSE generated

LooksEncrypted(v) == v.under # NoKey \/ v.text \in Prefixed

BugEncryptsTokens(v, k) ==      \* seeded fault: the prefix is not looked at
    [under |-> k, text |-> IF v.under = NoKey THEN v.text ELSE TokenText]

(* encrypt_credential *)
Encrypted(v, k) ==
    IF v = Empty \/ LooksEncrypted(v) THEN v ELSE [under |-> k, text |-> v.text]

NeedsKey(v) == v # Empty /\ ~LooksEncrypted(v)

(* _encrypt_credential_vals, and the write or create of the field: v is what a
   user enters, or what is copied from a connector as it is. *)
Put(s, f, v, secret) ==
    \E t \in tx[s] :
        LET u == IF NeedsKey(v) THEN WithKey(t) ELSE t IN
        /\ IF NeedsKey(v) THEN GetKey(s, t) ELSE UNCHANGED generated
        /\ f \notin t.outdated
        /\ tx' = [tx EXCEPT ![s] =
                    {[u EXCEPT !.cred[f] = Encrypted(v, OwnKey(u)),
                               !.entered[f] = secret, !.wrote = @ \union {f}]}]
        /\ UNCHANGED <<key, cred, entered, removed, acts>>

Save(s, f, secret) == Put(s, f, [under |-> NoKey, text |-> secret], secret)

(* copy() of a connector gives the new one's create the stored text. *)
Duplicate(s, f, g) ==
    \E t \in tx[s] : t.cred[g] = Empty /\ Put(s, g, t.cred[f], t.entered[f])

(* decrypt_credential gives the secret, or raises UserError: under another key,
   or when the text is no token. *)
Decrypted(v, k) ==
    IF ~LooksEncrypted(v) \/ (v.under = k /\ k # NoKey) THEN {v.text} ELSE {}

(* get_credential: what it returns, and the key it creates when there is none. *)
Answer(t, f) == Decrypted(t.cred[f], OwnKey(t))

Read(s, f) ==
    \E t \in tx[s] :
        /\ LooksEncrypted(t.cred[f])
        /\ GetKey(s, t)
        /\ tx' = [tx EXCEPT ![s] = {WithKey(t)}]
        /\ UNCHANGED <<key, cred, entered, removed, acts>>

-----------------------------------------------------------------------------
(* The ends of a transaction *)

(* A caller that catches the UserError goes on and commits: the key a reader
   has created stays. *)
Commit(s) ==
    \E t \in tx[s] :
        /\ t.wrote \intersect t.outdated = {}
        /\ key' = IF t.made # NoKey THEN t.made ELSE key
        /\ cred' = [f \in Field |-> IF f \in t.wrote THEN t.cred[f] ELSE cred[f]]
        /\ entered' = [f \in Field |-> IF f \in t.wrote THEN t.entered[f] ELSE entered[f]]
        /\ tx' = [r \in Session |->
                    IF r = s THEN {}
                    ELSE {[u EXCEPT !.outdated = @ \union t.wrote] : u \in tx[r]}]
        /\ UNCHANGED <<generated, removed, acts>>

(* The UserError or a refused statement ends it, or the process dies. *)
Rollback(s) ==
    /\ tx[s] # {}
    /\ tx' = [tx EXCEPT ![s] = {}]
    /\ UNCHANGED <<key, cred, entered, generated, removed, acts>>

-----------------------------------------------------------------------------
(* An administrator removes the parameter, or puts a key back that was there. *)

AdminSets(k) ==
    /\ acts < MaxAdminActs /\ key # NoKey
    /\ k \in removed \union {NoKey} /\ k # key
    /\ acts' = acts + 1
    /\ key' = k
    /\ removed' = removed \union {key}
    /\ UNCHANGED <<cred, entered, tx, generated>>

Next ==
    \/ \E s \in Session :
        \/ Begin(s) \/ Commit(s) \/ Rollback(s)
        \/ \E f \in Field :
            \/ \E secret \in Secret : Save(s, f, secret)
            \/ \E g \in Field : Duplicate(s, f, g)
            \/ Read(s, f)
    \/ \E k \in Key \union {NoKey} : AdminSets(k)

Spec == Init /\ [][Next]_vars

-----------------------------------------------------------------------------
(* The inductive invariant *)

(* Keys come from the generator, and at most one transaction has a key of its
   own, none while one is committed. *)
KeyInv ==
    /\ key <= generated /\ removed \subseteq 0 .. generated
    /\ \A s \in Session : \A t \in tx[s] :
        t.made # NoKey =>
            /\ key = NoKey /\ t.seen = NoKey /\ t.made <= generated
            /\ \A r \in Session : \A u \in tx[r] : u.made # NoKey => r = s

(* What a transaction sees was committed, or is its own. *)
SeenInv ==
    \A s \in Session : \A t \in tx[s] :
        /\ t.seen \in {NoKey, key} \union removed
        /\ \A f \in Field : t.cred[f].under \in {NoKey, t.seen, t.made} \union removed

(* Encrypted or not, a field holds what was entered. *)
TextInv ==
    \A f \in Field :
        /\ cred[f].text = entered[f]
        /\ \A s \in Session : \A t \in tx[s] : t.cred[f].text = t.entered[f]

-----------------------------------------------------------------------------
(* Properties *)

(* No credential is committed under a key that is not the committed one, unless
   an administrator took that key away: of two transactions that create the
   first key, the one that comes second takes its credentials back with its key
   (credential_store.py:35-43). *)
KeysAreStored ==
    \A f \in Field : cred[f].under \in {NoKey, key} \union removed

(* The above, with the types: what the proofs are by induction on. *)
IInv == TypeOK /\ KeyInv /\ SeenInv /\ TextInv /\ KeysAreStored

(* Whatever is copied, saved again, rolled back or encrypted by two sessions at
   once, a transport never gets a wrong secret: it gets the one that was
   entered, or an error, and an error only for a key that was removed or a
   secret that looks like a token (credential_store.py:55, 83-106). *)
ReadsWhatWasEntered ==
    \A s \in Session, f \in Field : \A t \in tx[s] :
        \/ Answer(t, f) = {t.entered[f]}
        \/ /\ Answer(t, f) = {}
           /\ t.cred[f].under \in removed \/ t.entered[f] \in Prefixed
================================================================================
