------------------------- MODULE InboundPipelineProofs -------------------------
(***************************************************************************)
(* Proofs about InboundPipeline: two crons at one mailbox and one table.   *)
(***************************************************************************)
EXTENDS InboundPipeline, TLAPS

LEMMA InitIInv == Init => IInv
<1> SUFFICES ASSUME Init PROVE IInv
  OBVIOUS
<1>1. TypeOK
  BY PipelineAssumption DEF Init, TypeOK, Poller, State, Outcome, Unwritten
<1>2. PollInv /\ PickedInv /\ WriteInv /\ TakenInv
  BY PipelineAssumption DEF Init, PollInv, PickedInv, PickedUpOnce, WriteInv, TakenInv,
                            Poller, Unwritten
<1>3. AppliedIsOnce /\ NoCsvUnaccounted
  BY DEF Init, AppliedIsOnce, NoCsvUnaccounted
<1>4. HolderInv
  BY DEF Init, HolderInv, Unwritten, Poller
<1> QED
  BY <1>1, <1>2, <1>3, <1>4 DEF IInv

-----------------------------------------------------------------------------
(* The mailbox *)

LEMMA DeliverIInv ==
    ASSUME IInv, NEW f \in File, Deliver(f)
    PROVE  IInv'
<1> USE DEF IInv
<1>1. TypeOK'
  BY PipelineAssumption DEF Deliver, mail, work, store, TypeOK, Poller, State, Outcome
<1>2. PollInv'
  BY PipelineAssumption DEF Deliver, mail, work, store, TypeOK, PollInv, Unwritten,
                            Poller
<1>3. PickedInv'
  BY PipelineAssumption DEF Deliver, mail, work, store, TypeOK, PickedInv, PickedUpOnce,
                            Poller
<1>4. WriteInv'
  BY PipelineAssumption DEF Deliver, mail, work, store, TypeOK, WriteInv, Poller
<1>5. TakenInv'
  BY PipelineAssumption DEF Deliver, mail, work, store, TypeOK, TakenInv, Poller
<1>6. AppliedIsOnce' /\ NoCsvUnaccounted'
  BY PipelineAssumption DEF Deliver, mail, work, store, TypeOK, TakenInv, AppliedIsOnce,
                            NoCsvUnaccounted, Poller
<1>7. HolderInv'
  BY PipelineAssumption DEF Deliver, mail, work, store, TypeOK, HolderInv, Poller
<1> QED
  BY <1>1, <1>2, <1>3, <1>4, <1>5, <1>6, <1>7

LEMMA StartIInv ==
    ASSUME IInv, NEW p \in Poller, Start(p)
    PROVE  IInv'
<1> USE DEF IInv
<1>1. TypeOK'
  BY PipelineAssumption DEF Start, Waiting, mail, work, store, TypeOK, Poller, State,
                            Outcome
<1>2. PollInv'
  BY PipelineAssumption DEF Start, Waiting, mail, work, store, TypeOK, PollInv,
                            Unwritten, Poller
<1>3. PickedInv'
  BY PipelineAssumption DEF Start, Waiting, mail, work, store, TypeOK, PickedInv,
                            PickedUpOnce, Poller
<1>4. WriteInv'
  BY PipelineAssumption DEF Start, Waiting, mail, work, store, TypeOK, WriteInv,
                            PollInv, Unwritten, Poller
<1>5. TakenInv'
  BY PipelineAssumption DEF Start, Waiting, mail, work, store, TypeOK, TakenInv, Poller
<1>6. AppliedIsOnce' /\ NoCsvUnaccounted'
  BY PipelineAssumption DEF Start, Waiting, mail, work, store, TypeOK, TakenInv,
                            AppliedIsOnce, NoCsvUnaccounted, Poller
<1>7. HolderInv'
  BY PipelineAssumption DEF Start, Waiting, mail, work, store, TypeOK, HolderInv,
                            Unwritten, Poller
<1> QED
  BY <1>1, <1>2, <1>3, <1>4, <1>5, <1>6, <1>7

LEMMA ReadFileIInv ==
    ASSUME IInv, NEW p \in Poller, ReadFile(p)
    PROVE  IInv'
<1> USE DEF IInv
<1>1. TypeOK'
  BY PipelineAssumption DEF ReadFile, mail, work, store, TypeOK, Poller, State, Outcome
<1>2. PollInv'
  BY PipelineAssumption DEF ReadFile, mail, work, store, TypeOK, PollInv, Unwritten,
                            Poller
<1>3. PickedInv'
  BY PipelineAssumption DEF ReadFile, mail, work, store, TypeOK, PickedInv,
                            PickedUpOnce, Poller
<1>4. WriteInv'
  BY PipelineAssumption DEF ReadFile, mail, work, store, TypeOK, WriteInv, Poller
<1>5. TakenInv'
  BY PipelineAssumption DEF ReadFile, mail, work, store, TypeOK, TakenInv, Poller
<1>6. AppliedIsOnce' /\ NoCsvUnaccounted'
  BY PipelineAssumption DEF ReadFile, mail, work, store, TypeOK, TakenInv,
                            AppliedIsOnce, NoCsvUnaccounted, Poller
<1>7. HolderInv'
  BY PipelineAssumption DEF ReadFile, mail, work, store, TypeOK, HolderInv, Poller
<1> QED
  BY <1>1, <1>2, <1>3, <1>4, <1>5, <1>6, <1>7

LEMMA RemoveFileIInv ==
    ASSUME IInv, NEW p \in Poller, RemoveFile(p)
    PROVE  IInv'
<1> USE DEF IInv
<1>1. TypeOK'
  BY PipelineAssumption DEF RemoveFile, RemoveSucceeds, mail, work, store, TypeOK,
                            Poller, State, Outcome
<1>2. PollInv'
  BY PipelineAssumption DEF RemoveFile, RemoveSucceeds, mail, work, store, TypeOK,
                            PollInv, Unwritten, Poller
<1>3. PickedInv'
  BY PipelineAssumption DEF RemoveFile, RemoveSucceeds, mail, work, store, TypeOK,
                            PickedInv, PickedUpOnce, Poller
<1>4. WriteInv'
  BY PipelineAssumption DEF RemoveFile, RemoveSucceeds, mail, work, store, TypeOK,
                            WriteInv, Poller
<1>5. TakenInv'
  BY PipelineAssumption DEF RemoveFile, RemoveSucceeds, mail, work, store, TypeOK,
                            TakenInv, Poller
<1>6. AppliedIsOnce' /\ NoCsvUnaccounted'
  BY PipelineAssumption DEF RemoveFile, RemoveSucceeds, mail, work, store, TypeOK,
                            TakenInv, AppliedIsOnce, NoCsvUnaccounted, Poller
<1>7. HolderInv'
  BY PipelineAssumption DEF RemoveFile, RemoveSucceeds, mail, work, store, TypeOK,
                            HolderInv, Poller
<1> QED
  BY <1>1, <1>2, <1>3, <1>4, <1>5, <1>6, <1>7

LEMMA ExchangeBreaksIInv ==
    ASSUME IInv, NEW p \in Poller, ExchangeBreaks(p)
    PROVE  IInv'
<1> USE DEF IInv
<1>1. TypeOK'
  BY PipelineAssumption DEF ExchangeBreaks, mail, work, store, TypeOK, Poller, State,
                            Outcome
<1>2. PollInv'
  BY PipelineAssumption DEF ExchangeBreaks, mail, work, store, TypeOK, PollInv,
                            Unwritten, Poller
<1>3. PickedInv'
  BY PipelineAssumption DEF ExchangeBreaks, mail, work, store, TypeOK, PickedInv,
                            PickedUpOnce, Poller
<1>4. WriteInv'
  BY PipelineAssumption DEF ExchangeBreaks, mail, work, store, TypeOK, WriteInv, Poller
<1>5. TakenInv'
  BY PipelineAssumption DEF ExchangeBreaks, mail, work, store, TypeOK, TakenInv, Poller
<1>6. AppliedIsOnce' /\ NoCsvUnaccounted'
  BY PipelineAssumption DEF ExchangeBreaks, mail, work, store, TypeOK, TakenInv,
                            AppliedIsOnce, NoCsvUnaccounted, Poller
<1>7. HolderInv'
  BY PipelineAssumption DEF ExchangeBreaks, mail, work, store, TypeOK, HolderInv, Poller
<1> QED
  BY <1>1, <1>2, <1>3, <1>4, <1>5, <1>6, <1>7

LEMMA PollReturnsIInv ==
    ASSUME IInv, NEW p \in Poller, PollReturns(p)
    PROVE  IInv'
<1> USE DEF IInv
<1>1. TypeOK'
  BY PipelineAssumption DEF PollReturns, mail, work, store, TypeOK, Poller, State,
                            Outcome
<1>2. PollInv'
  BY PipelineAssumption DEF PollReturns, mail, work, store, TypeOK, PollInv, Unwritten,
                            Poller
<1>3. PickedInv'
  BY PipelineAssumption DEF PollReturns, mail, work, store, TypeOK, PickedInv,
                            PickedUpOnce, Poller
<1>4. WriteInv'
  BY PipelineAssumption DEF PollReturns, mail, work, store, TypeOK, WriteInv, Poller
<1>5. TakenInv'
  BY PipelineAssumption DEF PollReturns, mail, work, store, TypeOK, TakenInv, Poller
<1>6. AppliedIsOnce' /\ NoCsvUnaccounted'
  BY PipelineAssumption DEF PollReturns, mail, work, store, TypeOK, TakenInv,
                            AppliedIsOnce, NoCsvUnaccounted, Poller
<1>7. HolderInv'
  BY PipelineAssumption DEF PollReturns, mail, work, store, TypeOK, HolderInv, Poller
<1> QED
  BY <1>1, <1>2, <1>3, <1>4, <1>5, <1>6, <1>7

LEMMA StoreFileIInv ==
    ASSUME IInv, NEW f \in File, StoreFile(f)
    PROVE  IInv'
<1> USE DEF IInv
<1>1. TypeOK'
  BY PipelineAssumption DEF StoreFile, Recognised, Duplicate, Applicable, Csv, mail,
                            work, store, TypeOK, Poller, State, Outcome
<1>2. PollInv'
  BY PipelineAssumption DEF StoreFile, Recognised, Duplicate, Applicable, Csv, mail,
                            work, store, TypeOK, PollInv, Unwritten, Poller
<1>3. PickedInv'
  BY PipelineAssumption DEF StoreFile, Recognised, Duplicate, Applicable, Csv, mail,
                            work, store, TypeOK, PickedInv, PickedUpOnce, Poller
<1>4. WriteInv'
  BY PipelineAssumption DEF StoreFile, Recognised, Duplicate, Applicable, Csv, mail,
                            work, store, TypeOK, WriteInv, Poller
<1>5. TakenInv'
  BY PipelineAssumption DEF StoreFile, Recognised, Duplicate, Applicable, Csv, mail,
                            work, store, TypeOK, TakenInv, Poller
<1>6. AppliedIsOnce' /\ NoCsvUnaccounted'
  BY PipelineAssumption DEF StoreFile, Recognised, Duplicate, Applicable, Csv, mail,
                            work, store, TypeOK, TakenInv, AppliedIsOnce,
                            NoCsvUnaccounted, Poller
<1>7. HolderInv'
  BY PipelineAssumption DEF StoreFile, Recognised, Duplicate, Applicable, Csv, mail,
                            work, store, TypeOK, HolderInv, Poller
<1> QED
  BY <1>1, <1>2, <1>3, <1>4, <1>5, <1>6, <1>7

LEMMA StoreRaisesIInv ==
    ASSUME IInv, NEW f \in File, StoreRaises(f)
    PROVE  IInv'
<1> USE DEF IInv
<1>1. TypeOK'
  BY PipelineAssumption DEF StoreRaises, mail, work, store, TypeOK, Poller, State,
                            Outcome
<1>2. PollInv'
  BY PipelineAssumption DEF StoreRaises, mail, work, store, TypeOK, PollInv, Unwritten,
                            Poller
<1>3. PickedInv'
  BY PipelineAssumption DEF StoreRaises, mail, work, store, TypeOK, PickedInv,
                            PickedUpOnce, Poller
<1>4. WriteInv'
  BY PipelineAssumption DEF StoreRaises, mail, work, store, TypeOK, WriteInv, Poller
<1>5. TakenInv'
  BY PipelineAssumption DEF StoreRaises, mail, work, store, TypeOK, TakenInv, Poller
<1>6. AppliedIsOnce' /\ NoCsvUnaccounted'
  BY PipelineAssumption DEF StoreRaises, mail, work, store, TypeOK, TakenInv,
                            AppliedIsOnce, NoCsvUnaccounted, Poller
<1>7. HolderInv'
  BY PipelineAssumption DEF StoreRaises, mail, work, store, TypeOK, HolderInv, Poller
<1> QED
  BY <1>1, <1>2, <1>3, <1>4, <1>5, <1>6, <1>7

LEMMA ApplyFileIInv ==
    ASSUME IInv, NEW f \in File, ApplyFile(f)
    PROVE  IInv'
<1> USE DEF IInv
<1>1. TypeOK'
  BY PipelineAssumption DEF ApplyFile, mail, work, store, TypeOK, Poller, State, Outcome
<1>2. PollInv'
  BY PipelineAssumption DEF ApplyFile, mail, work, store, TypeOK, PollInv, Unwritten,
                            Poller
<1>3. PickedInv'
  BY PipelineAssumption DEF ApplyFile, mail, work, store, TypeOK, PickedInv,
                            PickedUpOnce, Poller
<1>4. WriteInv'
  BY PipelineAssumption DEF ApplyFile, mail, work, store, TypeOK, WriteInv, Poller
<1>5. TakenInv'
  BY PipelineAssumption DEF ApplyFile, mail, work, store, TypeOK, TakenInv, Poller
<1>6. AppliedIsOnce' /\ NoCsvUnaccounted'
  BY PipelineAssumption DEF ApplyFile, mail, work, store, TypeOK, TakenInv,
                            AppliedIsOnce, NoCsvUnaccounted, Poller
<1>7. HolderInv'
  BY PipelineAssumption DEF ApplyFile, mail, work, store, TypeOK, HolderInv, Poller
<1> QED
  BY <1>1, <1>2, <1>3, <1>4, <1>5, <1>6, <1>7

LEMMA ApplyRaisesIInv ==
    ASSUME IInv, NEW f \in File, ApplyRaises(f)
    PROVE  IInv'
<1> USE DEF IInv
<1>1. TypeOK'
  BY PipelineAssumption DEF ApplyRaises, mail, work, store, TypeOK, Poller, State,
                            Outcome
<1>2. PollInv'
  BY PipelineAssumption DEF ApplyRaises, mail, work, store, TypeOK, PollInv, Unwritten,
                            Poller
<1>3. PickedInv'
  BY PipelineAssumption DEF ApplyRaises, mail, work, store, TypeOK, PickedInv,
                            PickedUpOnce, Poller
<1>4. WriteInv'
  BY PipelineAssumption DEF ApplyRaises, mail, work, store, TypeOK, WriteInv, Poller
<1>5. TakenInv'
  BY PipelineAssumption DEF ApplyRaises, mail, work, store, TypeOK, TakenInv, Poller
<1>6. AppliedIsOnce' /\ NoCsvUnaccounted'
  BY PipelineAssumption DEF ApplyRaises, mail, work, store, TypeOK, TakenInv,
                            AppliedIsOnce, NoCsvUnaccounted, Poller
<1>7. HolderInv'
  BY PipelineAssumption DEF ApplyRaises, mail, work, store, TypeOK, HolderInv, Poller
<1> QED
  BY <1>1, <1>2, <1>3, <1>4, <1>5, <1>6, <1>7

LEMMA HandledAllIInv ==
    ASSUME IInv, NEW p \in Poller, HandledAll(p)
    PROVE  IInv'
<1> USE DEF IInv
<1>1. TypeOK'
  BY PipelineAssumption DEF HandledAll, mail, work, store, TypeOK, Poller, State,
                            Outcome
<1>2. PollInv'
  BY PipelineAssumption DEF HandledAll, mail, work, store, TypeOK, PollInv, Unwritten,
                            Poller
<1>3. PickedInv'
  BY PipelineAssumption DEF HandledAll, mail, work, store, TypeOK, PickedInv,
                            PickedUpOnce, Poller
<1>4. WriteInv'
  BY PipelineAssumption DEF HandledAll, mail, work, store, TypeOK, WriteInv, Poller
<1>5. TakenInv'
  BY PipelineAssumption DEF HandledAll, mail, work, store, TypeOK, TakenInv, Poller
<1>6. AppliedIsOnce' /\ NoCsvUnaccounted'
  BY PipelineAssumption DEF HandledAll, mail, work, store, TypeOK, TakenInv,
                            AppliedIsOnce, NoCsvUnaccounted, Poller
<1>7. HolderInv'
  BY PipelineAssumption DEF HandledAll, mail, work, store, TypeOK, HolderInv, Poller
<1> QED
  BY <1>1, <1>2, <1>3, <1>4, <1>5, <1>6, <1>7

LEMMA ProcessMessageIInv ==
    ASSUME IInv, NEW c \in Content, ProcessMessage(c)
    PROVE  IInv'
<1> USE DEF IInv
<1>1. TypeOK'
  BY PipelineAssumption DEF ProcessMessage, mail, work, store, TypeOK, Poller, State,
                            Outcome
<1>2. PollInv'
  BY PipelineAssumption DEF ProcessMessage, mail, work, store, TypeOK, PollInv,
                            Unwritten, Poller
<1>3. PickedInv'
  BY PipelineAssumption DEF ProcessMessage, mail, work, store, TypeOK, PickedInv,
                            PickedUpOnce, Poller
<1>4. WriteInv'
  BY PipelineAssumption DEF ProcessMessage, mail, work, store, TypeOK, WriteInv, Poller
<1>5. TakenInv'
  BY PipelineAssumption DEF ProcessMessage, mail, work, store, TypeOK, TakenInv, Poller
<1>6. AppliedIsOnce' /\ NoCsvUnaccounted'
  BY PipelineAssumption DEF ProcessMessage, mail, work, store, TypeOK, TakenInv,
                            AppliedIsOnce, NoCsvUnaccounted, Poller
<1>7. HolderInv'
  BY PipelineAssumption DEF ProcessMessage, mail, work, store, TypeOK, HolderInv, Poller
<1> QED
  BY <1>1, <1>2, <1>3, <1>4, <1>5, <1>6, <1>7

LEMMA ProcessedAllIInv ==
    ASSUME IInv, ProcessedAll
    PROVE  IInv'
<1> USE DEF IInv
<1>1. TypeOK'
  BY PipelineAssumption DEF ProcessedAll, mail, work, store, TypeOK, Poller, State,
                            Outcome
<1>2. PollInv'
  BY PipelineAssumption DEF ProcessedAll, mail, work, store, TypeOK, PollInv, Unwritten,
                            Poller
<1>3. PickedInv'
  BY PipelineAssumption DEF ProcessedAll, mail, work, store, TypeOK, PickedInv,
                            PickedUpOnce, Poller
<1>4. WriteInv'
  BY PipelineAssumption DEF ProcessedAll, mail, work, store, TypeOK, WriteInv, Poller
<1>5. TakenInv'
  BY PipelineAssumption DEF ProcessedAll, mail, work, store, TypeOK, TakenInv, Poller
<1>6. AppliedIsOnce' /\ NoCsvUnaccounted'
  BY PipelineAssumption DEF ProcessedAll, mail, work, store, TypeOK, TakenInv,
                            AppliedIsOnce, NoCsvUnaccounted, Poller
<1>7. HolderInv'
  BY PipelineAssumption DEF ProcessedAll, mail, work, store, TypeOK, HolderInv, Poller
<1> QED
  BY <1>1, <1>2, <1>3, <1>4, <1>5, <1>6, <1>7

LEMMA CommitRunIInv ==
    ASSUME IInv, NEW p \in Poller, CommitRun(p)
    PROVE  IInv'
<1> USE DEF IInv
<1>1. /\ pc[p] = "ending" /\ Ends(p)
      /\ row' = [c \in Content |-> CASE write[p][c] = "none"   -> row[c]
                                   [] write[p][c] = "partly" -> "dead"
                                   [] OTHER                  -> write[p][c]]
      /\ UNCHANGED lost
  BY DEF CommitRun
<1>2. \A c \in Content : /\ row'[c] \in State
                         /\ row[c] # "none" => row'[c] # "none"
                         /\ row[c] = "received" /\ c \in todo' => row'[c] = "received"
  BY <1>1 DEF TypeOK, WriteInv, Ends, Poller, State, Outcome
<1>3. /\ applied' \in [file : [File -> Nat], msg : [Content -> Nat]]
      /\ \A f \in File : /\ applied'.file[f] \in Nat
                         /\ applied.file[f] > 0 => applied'.file[f] > 0
                         /\ p = "mf" /\ f \in direct => applied'.file[f] > 0
      /\ \A c \in Content :
            applied'.msg[c] = IF p = "mf" /\ write[p][c] \in {"applied", "partly"}
                              THEN applied.msg[c] + 1 ELSE applied.msg[c]
  <2>1. applied.file \in [File -> Nat] /\ applied.msg \in [Content -> Nat]
    BY DEF TypeOK
  <2>2. CASE p = "core"
    BY <2>1, <2>2 DEF CommitRun, TypeOK
  <2>3. CASE p = "mf"
    <3>1. /\ applied'.file = [f \in File |-> IF f \in direct THEN applied.file[f] + 1
                                             ELSE applied.file[f]]
          /\ applied'.msg = [c \in Content |-> IF write[p][c] \in {"applied", "partly"}
                                               THEN applied.msg[c] + 1 ELSE applied.msg[c]]
          /\ applied' = [file |-> applied'.file, msg |-> applied'.msg]
      BY <2>3 DEF CommitRun
    <3>2. applied'.file \in [File -> Nat] /\ applied'.msg \in [Content -> Nat]
      BY <2>1, <3>1
    <3>3. applied' \in [file : [File -> Nat], msg : [Content -> Nat]]
      BY <3>1, <3>2
    <3>4. \A f \in File : /\ applied'.file[f] \in Nat
                          /\ applied.file[f] > 0 => applied'.file[f] > 0
                          /\ f \in direct => applied'.file[f] > 0
      BY <2>1, <3>1
    <3>5. \A c \in Content :
            applied'.msg[c] = IF write[p][c] \in {"applied", "partly"}
                              THEN applied.msg[c] + 1 ELSE applied.msg[c]
      BY <3>1
    <3> QED
      BY <2>3, <3>3, <3>4, <3>5
  <2> QED
    BY <2>2, <2>3 DEF Poller
<1>4. TypeOK'
  <2>1. row' \in [Content -> State]
    BY <1>1, <1>2
  <2>2. todo' \subseteq {c \in Content : row'[c] = "received"}
    <3>1. todo' \subseteq todo
      BY <1>1 DEF Ends
    <3> QED
      BY <1>2, <3>1 DEF TypeOK
  <2>3. write' \in [Poller -> [Content -> Outcome]]
    BY <1>1 DEF Ends, TypeOK, Unwritten, State, Outcome
  <2> QED
    BY <1>1, <1>3, <2>1, <2>2, <2>3, PipelineAssumption DEF Ends, TypeOK,  Poller
<1>5. PollInv'
  BY <1>1 DEF TypeOK, PollInv, Ends, Unwritten, Poller
<1>6. PickedInv'
  BY <1>1 DEF TypeOK, PickedInv, PickedUpOnce, Ends
<1>7. WriteInv'
  BY <1>1 DEF TypeOK, WriteInv, Ends, Unwritten, Poller
<1>8. TakenInv'
  BY <1>1, <1>2, PipelineAssumption DEF TypeOK, TakenInv, Ends, Unwritten, Poller
<1>9. AppliedIsOnce'
  <2> SUFFICES ASSUME NEW c \in Content
               PROVE  /\ applied'.msg[c] <= 1
                      /\ applied'.msg[c] = 1 => row'[c] \in {"applied", "dead", "queued"}
                      /\ row'[c] = "applied" => applied'.msg[c] = 1
    BY DEF AppliedIsOnce
  <2>1. /\ applied.msg[c] \in Nat /\ applied.msg[c] <= 1
        /\ applied.msg[c] = 1 => row[c] \in {"applied", "dead", "queued"}
        /\ row[c] = "applied" => applied.msg[c] = 1
    BY DEF AppliedIsOnce, TypeOK
  <2>2. CASE p = "core"
    BY <1>1, <1>3, <2>1, <2>2 DEF WriteInv
  <2>3. CASE p = "mf"
    BY <1>1, <1>3, <2>1, <2>3 DEF WriteInv
  <2> QED
    BY <2>2, <2>3 DEF Poller
(* The files that leave the cron's hands: none is left that it has not dealt with. *)
<1>10. NoCsvUnaccounted'
  <2> SUFFICES ASSUME NEW f \in delivered, f \notin mailbox, f \in File,
                      NEW c, c = Payload[f], Applicable(c),
                      \A q \in Poller : f \notin taken'[q]
               PROVE  row'[c] # "none" \/ applied'.file[f] > 0 \/ f \in lost
    BY <1>1 DEF NoCsvUnaccounted, Ends,  TypeOK
  <2>1. c \in Content /\ got[p] = {}
    BY <1>1, PipelineAssumption DEF PollInv
  <2>2. CASE f \in taken[p]
    <3>1. CASE p = "core"
      BY <1>1, <2>1, <2>2, <3>1 DEF TakenInv
    <3>2. CASE p = "mf"
      BY <1>3, <2>1, <2>2, <3>2 DEF TakenInv
    <3> QED BY <3>1, <3>2 DEF Poller
  <2>3. CASE f \notin taken[p]
    <3>1. \A q \in Poller : f \notin taken[q]
      BY <1>1, <2>3 DEF Ends, TypeOK
    <3> QED
      BY <1>2, <1>3, <2>1, <3>1 DEF NoCsvUnaccounted
  <2> QED BY <2>2, <2>3
(* What "mf" has applied had not been applied before, and it holds it no longer. *)
<1>11. HolderInv'
  <2>1. \A q \in Poller : taken'[q] = IF q = p THEN {} ELSE taken[q]
    BY <1>1 DEF Ends, TypeOK
  <2>2. \A f \in File : applied'.file[f] = IF p = "mf" /\ f \in direct
                                          THEN applied.file[f] + 1 ELSE applied.file[f]
    BY DEF CommitRun, TypeOK, Poller
  <2>3. \A f \in direct : f \in taken["mf"] /\ applied.file[f] = 0
    BY DEF TypeOK, HolderInv
  <2>4. taken'["core"] \intersect taken'["mf"] = {}
    BY <2>1 DEF HolderInv, Poller
  <2>5. \A f \in File : \/ f \in delivered' \ mailbox'
                        \/ applied'.file[f] = 0 /\ \A q \in Poller : f \notin taken'[q]
    BY <1>1, <2>1, <2>2, <2>3 DEF HolderInv, Ends, Poller
  <2>6. \A f \in taken'["core"] \union taken'["mf"] : applied'.file[f] = 0
    <3> SUFFICES ASSUME NEW q \in Poller, NEW f \in taken'[q] PROVE applied'.file[f] = 0
      BY DEF Poller
    <3>1. q # p /\ f \in taken[q] /\ f \in File
      BY <2>1 DEF TypeOK
    <3>2. applied.file[f] = 0
      BY <3>1 DEF HolderInv, Poller
    <3>3. ~(p = "mf" /\ f \in direct)
      BY <2>3, <3>1 DEF HolderInv, Poller
    <3> QED BY <2>2, <3>1, <3>2, <3>3
  <2>7. \A f \in File : applied'.file[f] <= 1
    BY <2>2, <2>3 DEF HolderInv, TypeOK
  <2>8. \A c \in Content :
            write'["core"][c] # "none" => \E f \in taken'["core"] : Payload[f] = c
    BY <1>1, <2>1 DEF Ends, TypeOK, HolderInv, Unwritten, Poller
  <2> QED BY <2>4, <2>5, <2>6, <2>7, <2>8 DEF HolderInv
<1> QED
  BY <1>4, <1>5, <1>6, <1>7, <1>8, <1>9, <1>10, <1>11

LEMMA CrashRunIInv ==
    ASSUME IInv, NEW p \in Poller, CrashRun(p)
    PROVE  IInv'
<1> USE DEF IInv
<1>1. TypeOK'
  BY PipelineAssumption DEF CrashRun, Ends, Unwritten, mail, work, store, TypeOK,
                            Poller, State, Outcome
<1>2. PollInv'
  BY PipelineAssumption DEF CrashRun, Ends, Unwritten, mail, work, store, TypeOK,
                            PollInv, Poller
<1>3. PickedInv'
  BY PipelineAssumption DEF CrashRun, Ends, Unwritten, mail, work, store, TypeOK,
                            PickedInv, PickedUpOnce, Poller
<1>4. WriteInv'
  BY PipelineAssumption DEF CrashRun, Ends, Unwritten, mail, work, store, TypeOK,
                            WriteInv, Poller
<1>5. TakenInv'
  BY PipelineAssumption DEF CrashRun, Ends, Unwritten, mail, work, store, TypeOK,
                            TakenInv, Poller
<1>6. AppliedIsOnce' /\ NoCsvUnaccounted'
  BY PipelineAssumption DEF CrashRun, Ends, Unwritten, mail, work, store, TypeOK,
                            TakenInv, AppliedIsOnce, NoCsvUnaccounted, Poller
<1>7. HolderInv'
  BY PipelineAssumption DEF CrashRun, Ends, Unwritten, mail, work, store, TypeOK,
                            HolderInv, Poller
<1> QED
  BY <1>1, <1>2, <1>3, <1>4, <1>5, <1>6, <1>7

LEMMA FileAbortsRunIInv ==
    ASSUME IInv, NEW p \in Poller, NEW f \in File, FileAbortsRun(p, f)
    PROVE  IInv'
<1> USE DEF IInv
<1>1. TypeOK'
  BY PipelineAssumption DEF FileAbortsRun, Ends, Unwritten, mail, work, store, TypeOK,
                            Poller, State, Outcome
<1>2. PollInv'
  BY PipelineAssumption DEF FileAbortsRun, Ends, Unwritten, mail, work, store, TypeOK,
                            PollInv, Poller
<1>3. PickedInv'
  BY PipelineAssumption DEF FileAbortsRun, Ends, Unwritten, mail, work, store, TypeOK,
                            PickedInv, PickedUpOnce, Poller
<1>4. WriteInv'
  BY PipelineAssumption DEF FileAbortsRun, Ends, Unwritten, mail, work, store, TypeOK,
                            WriteInv, Poller
<1>5. TakenInv'
  BY PipelineAssumption DEF FileAbortsRun, Ends, Unwritten, mail, work, store, TypeOK,
                            TakenInv, Poller
<1>6. AppliedIsOnce' /\ NoCsvUnaccounted'
  BY PipelineAssumption DEF FileAbortsRun, Ends, Unwritten, mail, work, store, TypeOK,
                            TakenInv, AppliedIsOnce, NoCsvUnaccounted, Poller
<1>7. HolderInv'
  BY PipelineAssumption DEF FileAbortsRun, Ends, Unwritten, mail, work, store, TypeOK,
                            HolderInv, Poller
<1> QED
  BY <1>1, <1>2, <1>3, <1>4, <1>5, <1>6, <1>7

LEMMA MessageAbortsRunIInv ==
    ASSUME IInv, NEW c \in Content, MessageAbortsRun(c)
    PROVE  IInv'
<1> USE DEF IInv
<1>1. TypeOK'
  BY PipelineAssumption DEF MessageAbortsRun, Ends, Unwritten, mail, work, store,
                            TypeOK, Poller, State, Outcome
<1>2. PollInv'
  BY PipelineAssumption DEF MessageAbortsRun, Ends, Unwritten, mail, work, store,
                            TypeOK, PollInv, Poller
<1>3. PickedInv'
  BY PipelineAssumption DEF MessageAbortsRun, Ends, Unwritten, mail, work, store,
                            TypeOK, PickedInv, PickedUpOnce, Poller
<1>4. WriteInv'
  BY PipelineAssumption DEF MessageAbortsRun, Ends, Unwritten, mail, work, store,
                            TypeOK, WriteInv, Poller
<1>5. TakenInv'
  BY PipelineAssumption DEF MessageAbortsRun, Ends, Unwritten, mail, work, store,
                            TypeOK, TakenInv, Poller
<1>6. AppliedIsOnce' /\ NoCsvUnaccounted'
  BY PipelineAssumption DEF MessageAbortsRun, Ends, Unwritten, mail, work, store,
                            TypeOK, TakenInv, AppliedIsOnce, NoCsvUnaccounted, Poller
<1>7. HolderInv'
  BY PipelineAssumption DEF MessageAbortsRun, Ends, Unwritten, mail, work, store,
                            TypeOK, HolderInv, Poller
<1> QED
  BY <1>1, <1>2, <1>3, <1>4, <1>5, <1>6, <1>7

LEMMA RequeueInboundIInv ==
    ASSUME IInv, NEW c \in Content, RequeueInbound(c)
    PROVE  IInv'
<1> USE DEF IInv
<1>1. TypeOK'
  BY PipelineAssumption DEF RequeueInbound, mail, work, store, TypeOK, Poller, State,
                            Outcome
<1>2. PollInv'
  BY PipelineAssumption DEF RequeueInbound, mail, work, store, TypeOK, PollInv,
                            Unwritten, Poller
<1>3. PickedInv'
  BY PipelineAssumption DEF RequeueInbound, mail, work, store, TypeOK, PickedInv,
                            PickedUpOnce, Poller
<1>4. WriteInv'
  BY PipelineAssumption DEF RequeueInbound, mail, work, store, TypeOK, WriteInv, Poller
<1>5. TakenInv'
  BY PipelineAssumption DEF RequeueInbound, mail, work, store, TypeOK, TakenInv, Poller
<1>6. AppliedIsOnce' /\ NoCsvUnaccounted'
  BY PipelineAssumption DEF RequeueInbound, mail, work, store, TypeOK, TakenInv,
                            AppliedIsOnce, NoCsvUnaccounted, Poller
<1>7. HolderInv'
  BY PipelineAssumption DEF RequeueInbound, mail, work, store, TypeOK, HolderInv, Poller
<1> QED
  BY <1>1, <1>2, <1>3, <1>4, <1>5, <1>6, <1>7

LEMMA NextIInv == IInv /\ [Next]_vars => IInv'
<1> SUFFICES ASSUME IInv, [Next]_vars PROVE IInv'
  OBVIOUS
<1>1. ASSUME NEW f \in File, Deliver(f) \/ StoreRaises(f) \/ ApplyRaises(f) PROVE IInv'
  BY <1>1, DeliverIInv, StoreRaisesIInv, ApplyRaisesIInv
<1>2. ASSUME NEW p \in Poller, Works(p) PROVE IInv'
  <2>1. CASE Start(p) \/ ReadFile(p) \/ RemoveFile(p) \/ PollReturns(p) \/ HandledAll(p)
    BY <2>1, StartIInv, ReadFileIInv, RemoveFileIInv, PollReturnsIInv, HandledAllIInv
  <2>2. CASE CommitRun(p)
    BY <2>2, CommitRunIInv
  <2>3. ASSUME NEW f \in File, StoreFile(f) \/ ApplyFile(f) PROVE IInv'
    BY <2>3, StoreFileIInv, ApplyFileIInv
  <2>4. ASSUME NEW c \in Content, ProcessMessage(c) PROVE IInv'
    BY <2>4, ProcessMessageIInv
  <2>5. CASE ProcessedAll
    BY <2>5, ProcessedAllIInv
  <2> QED
    BY <1>2, <2>1, <2>2, <2>3, <2>4, <2>5 DEF Works
<1>3. ASSUME NEW p \in Poller, ExchangeBreaks(p) \/ CrashRun(p) PROVE IInv'
  BY <1>3, ExchangeBreaksIInv, CrashRunIInv
<1>4. ASSUME NEW p \in Poller, NEW f \in File, FileAbortsRun(p, f) PROVE IInv'
  BY <1>4, FileAbortsRunIInv
<1>5. ASSUME NEW c \in Content, MessageAbortsRun(c) \/ RequeueInbound(c) PROVE IInv'
  BY <1>5, MessageAbortsRunIInv, RequeueInboundIInv
<1>6. CASE UNCHANGED vars
  BY <1>6 DEF vars, mail, work, store,  IInv, TypeOK, PollInv, PickedInv,
              PickedUpOnce, HolderInv, WriteInv, TakenInv, AppliedIsOnce, NoCsvUnaccounted
<1> QED
  BY <1>1, <1>2, <1>3, <1>4, <1>5, <1>6 DEF Next

-----------------------------------------------------------------------------
(* Results *)

(* The inductive invariant of the two crons (message.py:271-312,
   inbound_cron.py:41-216, sftp.py:118-144). *)
THEOREM PipelineInvariant == Spec => []IInv
<1> QED
  BY InitIInv, NextIInv, PTL DEF Spec

(* The variables keep their types; the messages "mf" has before it are received. *)
THEOREM PipelineTypes == Spec => []TypeOK
<1>1. IInv => TypeOK
  BY DEF IInv
<1> QED
  BY <1>1, PipelineInvariant, PTL

(* No file is handed to a cron twice, for any mailbox (sftp.py:130-136). *)
THEOREM FilesArePickedUpOnce == Spec => []PickedUpOnce
<1>1. IInv => PickedUpOnce
  BY DEF IInv, PickedInv
<1> QED
  BY <1>1, PipelineInvariant, PTL

(* No file is applied directly twice, although the direct path knows no hashes
   (inbound_cron.py:81-140). *)
THEOREM FilesAreAppliedOnce == Spec => [](\A f \in File : applied.file[f] <= 1)
<1>1. IInv => \A f \in File : applied.file[f] <= 1
  BY DEF IInv, HolderInv
<1> QED
  BY <1>1, PipelineInvariant, PTL

(* The effect of a message is committed once at most, with the state applied or, cut
   short by an exception, dead; whatever is delivered again, rolled back or refused
   (inbound_cron.py:142-216). *)
THEOREM MessagesAreAppliedOnce == Spec => []AppliedIsOnce
<1>1. IInv => AppliedIsOnce
  BY DEF IInv
<1> QED
  BY <1>1, PipelineInvariant, PTL

(* No CSV file of up to 50 MB disappears without a trace, for any files, contents,
   deaths and refused statements (sftp.py:130-136, message.py:278-308,
   inbound_cron.py:81-140). *)
THEOREM CsvIsAccountedFor == Spec => []NoCsvUnaccounted
<1>1. IInv => NoCsvUnaccounted
  BY DEF IInv
<1> QED
  BY <1>1, PipelineInvariant, PTL

-----------------------------------------------------------------------------
(* Refinement *)

(* What a cron has picked up is what it holds in InboundDelivery. *)
LEMMA HeldIsTaken ==
    ASSUME IInv
    PROVE  /\ \A p \in Poller : Delivery!Held(p) = taken[p]
           /\ \A p \in Poller : taken[p] \subseteq File
           /\ \A f \in File, p \in Poller : Place(f) = p <=> f \in taken[p]
<1>1. \A p \in Poller : taken[p] \subseteq File
  BY DEF IInv, TypeOK
<1>2. \A f \in File, p \in Poller : Place(f) = p <=> f \in taken[p]
  BY DEF IInv, HolderInv, Place, Poller
<1>3. \A p \in Poller : Delivery!Held(p) = taken[p]
  BY <1>1, <1>2 DEF Delivery!Held
<1> QED BY <1>1, <1>2, <1>3

(* A step that moves no file and changes no message is a stutter. *)
LEMMA DeliveryStutter ==
    ASSUME UNCHANGED <<delivered, mailbox, taken, row, applied>>
    PROVE  UNCHANGED Delivery!vars
BY DEF Delivery!vars, Place

(* A step that moves one file is the move of that file. *)
LEMMA MoveRefines ==
    ASSUME NEW f \in File, NEW from, NEW to, Place(f) = from,
           \A g \in File : Place(g)' = IF g = f THEN to ELSE Place(g),
           UNCHANGED <<row, applied>>
    PROVE  Delivery!Moves(f, from, to)
BY DEF Delivery!Moves

LEMMA InitRefines == Init => Delivery!Init
BY DEF Init, Place, Delivery!Init

LEMMA DeliverRefines ==
    ASSUME IInv, NEW f \in File, Deliver(f)
    PROVE  Delivery!Deliver(f)
<1>1. Place(f) = "away"
  BY DEF Deliver, Place
<1>2. \A g \in File : Place(g)' = IF g = f THEN "mailbox" ELSE Place(g)
  BY DEF Deliver, Place, work
<1> QED
  BY <1>1, <1>2, MoveRefines DEF Deliver, store, Delivery!Deliver

(* The poll that removes the file has it; the one that comes too late does not. *)
LEMMA RemoveFileRefines ==
    ASSUME IInv, NEW p \in Poller, RemoveFile(p)
    PROVE  (\E f \in File : Delivery!PickUp(p, f)) \/ UNCHANGED Delivery!vars
<1>1. PICK f \in File : f = reading[p] /\ f # None
  BY DEF RemoveFile, IInv, TypeOK
<1>2. CASE f \in mailbox
  <2>1. f \in delivered /\ \A q \in Poller : f \notin taken[q]
    BY <1>2 DEF IInv, TypeOK, HolderInv
  <2>2. Place(f) = "mailbox"
    BY <1>2, <2>1 DEF Place
  <2>3. /\ mailbox' = mailbox \ {f} /\ delivered' = delivered
        /\ \A q \in Poller : taken'[q] = IF q = p THEN taken[q] \union {f} ELSE taken[q]
    BY <1>1, <1>2 DEF RemoveFile, RemoveSucceeds, IInv, TypeOK
  <2>4. \A g \in File : Place(g)' = IF g = f THEN p ELSE Place(g)
    BY <2>1, <2>3 DEF Place, Poller
  <2> QED
    BY <2>2, <2>4, MoveRefines DEF RemoveFile, store, Delivery!PickUp
<1>3. CASE f \notin mailbox
  <2>1. mailbox' = mailbox
    BY <1>1, <1>3 DEF RemoveFile
  <2> QED
    BY <1>1, <1>3, <2>1, DeliveryStutter DEF RemoveFile, RemoveSucceeds, store
<1> QED BY <1>2, <1>3

LEMMA ExchangeBreaksRefines ==
    ASSUME IInv, NEW p \in Poller, ExchangeBreaks(p)
    PROVE  (\E f \in File : Delivery!Vanish(f)) \/ UNCHANGED Delivery!vars
<1>1. PICK f \in File : f = reading[p] /\ f # None
  BY DEF ExchangeBreaks, IInv, TypeOK
<1>2. CASE f \in mailbox /\ mailbox' = mailbox \ {f}
  <2>1. f \in delivered /\ \A q \in Poller : f \notin taken[q]
    BY <1>2 DEF IInv, TypeOK, HolderInv
  <2>2. Place(f) = "mailbox"
    BY <1>2, <2>1 DEF Place
  <2>3. \A g \in File : Place(g)' = IF g = f THEN "gone" ELSE Place(g)
    BY <1>2, <2>1 DEF ExchangeBreaks, work, Place, Poller
  <2> QED
    BY <2>2, <2>3, MoveRefines DEF ExchangeBreaks, store, Delivery!Vanish
<1>3. CASE UNCHANGED mailbox
  BY <1>3, DeliveryStutter DEF ExchangeBreaks, work, store
<1> QED BY <1>1, <1>2, <1>3 DEF ExchangeBreaks

(* The end of a transaction takes everything out of the cron's hands. *)
LEMMA EndsRefines ==
    ASSUME IInv, NEW p \in Poller, Ends(p)
    PROVE  Delivery!LetGo(p)
<1>1. /\ UNCHANGED <<mailbox, delivered>>
      /\ \A q \in Poller : taken'[q] = IF q = p THEN {} ELSE taken[q]
  BY DEF Ends, IInv, TypeOK
<1>2. ASSUME NEW f \in File PROVE Place(f)' = IF f \in taken[p] THEN "gone" ELSE Place(f)
  <2>1. /\ f \in taken[p] => f \in delivered \ mailbox
        /\ ~ (f \in taken["core"] /\ f \in taken["mf"])
    BY DEF IInv, HolderInv
  <2> QED
    BY <1>1, <2>1 DEF Place, Poller
<1> QED
  BY <1>2, HeldIsTaken DEF Delivery!LetGo

(* A rolled-back transaction has done nothing. *)
LEMMA RollbackRefines ==
    ASSUME IInv, NEW p \in Poller, Ends(p), UNCHANGED store
    PROVE  Delivery!LetGo(p) /\ Delivery!GiveUp
BY EndsRefines DEF store, Delivery!GiveUp

(* "core" commits: the rows it inserts are of files it holds, and new although the
   search for duplicates sees no other transaction's rows. *)
LEMMA CommitCoreRefines ==
    ASSUME IInv, CommitRun("core")
    PROVE  Delivery!LetGo("core") /\ \E new \in SUBSET Content : Delivery!Store(new)
<1> DEFINE new == {c \in Content : write["core"][c] # "none"}
<1>1. Delivery!LetGo("core")
  BY EndsRefines DEF CommitRun, Poller
<1>2. \A c \in new : /\ write["core"][c] = "received" /\ row[c] = "none"
                     /\ \E f \in taken["core"] : Payload[f] = c
  BY DEF IInv, WriteInv, HolderInv
<1>3. row' = [c \in Content |-> IF c \in new THEN "received" ELSE row[c]]
  BY <1>2 DEF CommitRun
<1>4. applied' = applied
  BY DEF CommitRun
<1>5. Delivery!Store(new)
  BY <1>2, <1>3, <1>4, HeldIsTaken DEF Delivery!Store, Poller
<1> QED BY <1>1, <1>5

(* "mf" commits: what it settles is received in the table of that moment, not only
   in its snapshot. *)
LEMMA CommitMfRefines ==
    ASSUME IInv, CommitRun("mf")
    PROVE  /\ Delivery!LetGo("mf")
           /\ \E files \in SUBSET File, done, dead, touched \in SUBSET Content :
                    Delivery!Settle(files, done, dead, touched)
<1> DEFINE done == {c \in Content : write["mf"][c] = "applied"}
           dead == {c \in Content : write["mf"][c] \in {"dead", "partly"}}
           touched == {c \in Content : write["mf"][c] \in {"applied", "partly"}}
<1>1. Delivery!LetGo("mf")
  BY EndsRefines DEF CommitRun, Poller
<1>2. direct \subseteq taken["mf"] /\ direct \subseteq File
  BY DEF IInv, TypeOK, Poller
<1>3. \A c \in Content : /\ write["mf"][c] \in {"none", "applied", "dead", "partly"}
                         /\ write["mf"][c] # "none" => row[c] = "received"
  BY DEF IInv, WriteInv
<1>4. row' = [c \in Content |-> IF c \in done THEN "applied"
                                ELSE IF c \in dead THEN "dead" ELSE row[c]]
  BY <1>3 DEF CommitRun
<1>5. applied' =
        [file |-> [f \in File |-> applied.file[f] + IF f \in direct THEN 1 ELSE 0],
         msg |-> [c \in Content |-> applied.msg[c] + IF c \in touched THEN 1 ELSE 0]]
  <2>1. applied.file \in [File -> Nat] /\ applied.msg \in [Content -> Nat]
    BY DEF IInv, TypeOK
  <2>2. /\ \A f \in File : (IF f \in direct THEN applied.file[f] + 1 ELSE applied.file[f])
                            = applied.file[f] + IF f \in direct THEN 1 ELSE 0
        /\ \A c \in Content : (IF write["mf"][c] \in {"applied", "partly"} THEN applied.msg[c] + 1
                                                                     ELSE applied.msg[c])
                            = applied.msg[c] + IF c \in touched THEN 1 ELSE 0
    BY <2>1
  <2> QED BY <2>2 DEF CommitRun
<1>6. Delivery!Settle(direct, done, dead, touched)
  BY <1>2, <1>3, <1>4, <1>5, HeldIsTaken DEF Delivery!Settle, Poller
<1>7. direct \in SUBSET File /\ done \in SUBSET Content /\ dead \in SUBSET Content
      /\ touched \in SUBSET Content
  BY <1>2
<1> QED BY <1>1, <1>6, <1>7

LEMMA RequeueRefines ==
    ASSUME NEW c \in Content, RequeueInbound(c)
    PROVE  Delivery!Requeue(c)
BY DEF RequeueInbound, mail, work, Place, Delivery!Requeue

LEMMA NextRefines ==
    ASSUME IInv, [Next]_vars
    PROVE  [Delivery!Next]_(Delivery!vars)
<1>1. ASSUME NEW f \in File, Deliver(f) PROVE Delivery!Next
  BY <1>1, DeliverRefines DEF Delivery!Next
<1>2. ASSUME NEW p \in Poller, RemoveFile(p)
      PROVE  Delivery!Next \/ UNCHANGED Delivery!vars
  BY <1>2, RemoveFileRefines DEF Delivery!Next, Poller
<1>3. ASSUME NEW p \in Poller, ExchangeBreaks(p)
      PROVE  Delivery!Next \/ UNCHANGED Delivery!vars
  BY <1>3, ExchangeBreaksRefines DEF Delivery!Next
<1>4. ASSUME NEW p \in Poller, CommitRun(p) PROVE Delivery!Next
  BY <1>4, CommitCoreRefines, CommitMfRefines DEF Delivery!Next, Poller
<1>5. ASSUME NEW p \in Poller, Ends(p), UNCHANGED store PROVE Delivery!Next
  BY <1>5, RollbackRefines DEF Delivery!Next, Poller
<1>6. ASSUME NEW c \in Content, RequeueInbound(c) PROVE Delivery!Next
  BY <1>6, RequeueRefines DEF Delivery!Next
<1>7. ASSUME UNCHANGED <<delivered, mailbox, taken, row, applied>>
      PROVE  UNCHANGED Delivery!vars
  BY <1>7, DeliveryStutter
<1>8. ASSUME NEW p \in Poller, Works(p)
      PROVE  Delivery!Next \/ UNCHANGED Delivery!vars
  BY <1>2, <1>4, <1>7, <1>8
  DEF Works, Start, ReadFile, PollReturns, HandledAll, StoreFile, ApplyFile,
      ProcessMessage, ProcessedAll, mail, work, store
<1>9. ASSUME NEW f \in File, StoreRaises(f) \/ ApplyRaises(f)
      PROVE  UNCHANGED Delivery!vars
  BY <1>7, <1>9 DEF StoreRaises, ApplyRaises, mail, store
<1>10. ASSUME NEW p \in Poller, CrashRun(p) PROVE Delivery!Next
  BY <1>5, <1>10 DEF CrashRun
<1>11. ASSUME NEW p \in Poller, NEW f \in File, FileAbortsRun(p, f) PROVE Delivery!Next
  BY <1>5, <1>11 DEF FileAbortsRun
<1>12. ASSUME NEW c \in Content, MessageAbortsRun(c) PROVE Delivery!Next
  BY <1>5, <1>12 DEF MessageAbortsRun, Poller
<1>13. CASE UNCHANGED vars
  BY <1>7, <1>13 DEF vars, mail, work, store
<1> QED
  BY <1>1, <1>3, <1>6, <1>8, <1>9, <1>10, <1>11, <1>12, <1>13 DEF Next

(* The two crons implement InboundDelivery, whatever they list, read and remove at
   the same time and however their transactions end: each file is handed to one of
   them, each new message is of a file that "core" held, and what is settled was
   received (sftp.py:118-144, message.py:271-312, inbound_cron.py:41-216). *)
THEOREM PipelineRefinesDelivery == Spec => DeliverySpec
<1> QED
  BY InitRefines, NextRefines, PipelineInvariant, PTL
  DEF Spec, DeliverySpec, Delivery!Spec
================================================================================
