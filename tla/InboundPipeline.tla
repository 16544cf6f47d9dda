---------------------------- MODULE InboundPipeline ----------------------------
(***************************************************************************)
(* How the partner's files get into the database.  Two crons poll the same *)
(* SFTP mailbox of a Mainfreight connector:                                *)
(*                                                                         *)
(*   "core"  3pl.message._poll_inbound stores each file as a message in    *)
(*           state received, unless its SHA-256 is known;                  *)
(*   "mf"    mf.inbound.cron._run_mf_inbound applies each file at once and *)
(*           then works through the messages in state received.            *)
(*                                                                         *)
(* A file is deleted from the mailbox when it is read; what a cron makes   *)
(* of it is in the database only when the cron's transaction commits.      *)
(* One run of each cron is at work at a time (ir.cron locks its job).      *)
(*                                                                         *)
(* Abstracted: the content of a file is its document type and its identity *)
(* (two files may have the same content); what an applied document does is *)
(* the subject of other modules, here it is counted.                       *)
(***************************************************************************)
EXTENDS Naturals, FiniteSets

CONSTANTS
    File,           \* files the partner puts into the mailbox
    Content,        \* their contents, up to equality of the SHA-256
    Payload,        \* Payload[f]: the content of file f
    Kind,           \* Kind[c]: what content c is
    Oversized,      \* the contents of more than 50 MB
    None            \* no file

Handled == {"so_confirmation", "so_acknowledgement", "inventory_report"}
Csv == {"so_acknowledgement", "inventory_report"}

ASSUME PipelineAssumption ==
    /\ Payload \in [File -> Content]
    /\ Kind \in [Content -> Handled \union
                    {"inward_confirmation", "other_xml", "blank"}]
    /\ Oversized \subseteq Content
    /\ None \notin File

Poller == {"core", "mf"}

VARIABLES
    mailbox,        \* files in the inbound directory
    delivered,      \* files the partner has put there so far
    row,            \* row[c]: committed state of the message with content c
    pc,             \* where each cron is
    names,          \* listdir's names the poll has not come to yet
    reading,        \* the file read but not yet removed
    got,            \* files picked up and not yet dealt with
    taken,          \* files picked up in this transaction
    write,          \* write[p][c]: state the open transaction gives message c
    direct,         \* files the open transaction of "mf" has applied
    todo,           \* messages "mf" has yet to process, read from its snapshot
    applied,        \* how often an effect of it, whole or partial, was committed:
                    \* [file: applied directly, msg: through the message]
    pickups,        \* how often a file was handed to a cron
    lost            \* files whose handling raised, or that went down with a
                    \* transaction or an exchange

mail == <<mailbox, delivered, names, reading, pickups>>
work == <<got, taken, write, direct, todo>>
store == <<row, applied>>
vars == <<mail, pc, work, store, lost>>

State == {"none", "received", "applied", "dead", "queued"}

(* What a transaction may write: a handler that raised after its first write
   leaves the message dead, and what it has written with it. *)
Outcome == State \union {"partly"}

Unwritten == [c \in Content |-> "none"]

(* Types, and that "mf" only has messages in state received before it. *)
TypeOK ==
    /\ mailbox \subseteq delivered /\ delivered \subseteq File
    /\ row \in [Content -> State]
    /\ pc \in [Poller -> {"idle", "picking", "handling", "processing", "ending"}]
    /\ names \in [Poller -> SUBSET File]
    /\ reading \in [Poller -> File \union {None}]
    /\ taken \in [Poller -> SUBSET File]
    /\ got \in [Poller -> SUBSET File]
    /\ \A p \in Poller : got[p] \subseteq taken[p]
    /\ write \in [Poller -> [Content -> Outcome]]
    /\ direct \subseteq taken["mf"]
    /\ todo \subseteq {c \in Content : row[c] = "received"}
    /\ applied \in [file : [File -> Nat], msg : [Content -> Nat]]
    /\ pickups \in [File -> Nat]
    /\ lost \subseteq File

Init ==
    /\ mailbox = {} /\ delivered = {}
    /\ row = [c \in Content |-> "none"]
    /\ pc = [p \in Poller |-> "idle"]
    /\ names = [p \in Poller |-> {}]
    /\ reading = [p \in Poller |-> None]
    /\ got = [p \in Poller |-> {}]
    /\ taken = [p \in Poller |-> {}]
    /\ write = [p \in Poller |-> Unwritten]
    /\ direct = {} /\ todo = {}
    /\ applied = [file |-> [f \in File |-> 0], msg |-> [c \in Content |-> 0]]
    /\ pickups = [f \in File |-> 0]
    /\ lost = {}

-----------------------------------------------------------------------------
(* The mailbox: SftpTransport.poll *)

Deliver(f) ==
    /\ f \notin delivered
    /\ delivered' = delivered \union {f}
    /\ mailbox' = mailbox \union {f}
    /\ UNCHANGED <<names, reading, pickups, pc, work, store, lost>>

(* The messages the cron of "mf" will find. *)
BugFindsApplied == {c \in Content : row[c] \in {"received", "applied"}}
Waiting == {c \in Content : row[c] = "received"}

(* The transaction begins, with its snapshot; the directory is listed, or the
   connection fails and the poll returns nothing. *)
Start(p) ==
    /\ pc[p] = "idle"
    /\ pc' = [pc EXCEPT ![p] = "picking"]
    /\ \E found \in {mailbox, {}} : names' = [names EXCEPT ![p] = found]
    /\ todo' = IF p = "mf" THEN Waiting ELSE todo
    /\ UNCHANGED <<mailbox, delivered, reading, pickups, got, taken, write, direct,
                   store, lost>>

(* sftp.open and read; a file the other cron has removed cannot be opened. *)
ReadFile(p) ==
    /\ pc[p] = "picking" /\ reading[p] = None
    /\ \E f \in names[p] :
        /\ names' = [names EXCEPT ![p] = @ \ {f}]
        /\ reading' = IF f \in mailbox THEN [reading EXCEPT ![p] = f] ELSE reading
    /\ UNCHANGED <<mailbox, delivered, pickups, pc, work, store, lost>>

(* sftp.remove fails when the file is gone, and then it is not appended. *)
BugAppendsAnyway(f) == TRUE     \* seeded fault: appended before the removal
RemoveSucceeds(f) == f \in mailbox

RemoveFile(p) ==
    LET f == reading[p] IN
    /\ f # None
    /\ reading' = [reading EXCEPT ![p] = None]
    /\ mailbox' = mailbox \ {f}
    /\ IF RemoveSucceeds(f)
       THEN /\ got' = [got EXCEPT ![p] = @ \union {f}]
            /\ taken' = [taken EXCEPT ![p] = @ \union {f}]
            /\ pickups' = [pickups EXCEPT ![f] = @ + 1]
       ELSE UNCHANGED <<got, taken, pickups>>
    /\ UNCHANGED <<delivered, names, pc, write, direct, todo, store, lost>>

(* The exchange breaks: the file is not read, or it is removed and the answer
   does not come back; either way it is not among the results. *)
ExchangeBreaks(p) ==
    LET f == reading[p] IN
    /\ f # None
    /\ reading' = [reading EXCEPT ![p] = None]
    /\ \/ UNCHANGED <<mailbox, lost>>
       \/ f \in mailbox /\ mailbox' = mailbox \ {f} /\ lost' = lost \union {f}
    /\ UNCHANGED <<delivered, names, pickups, pc, work, store>>

PollReturns(p) ==
    /\ pc[p] = "picking" /\ names[p] = {} /\ reading[p] = None
    /\ pc' = [pc EXCEPT ![p] = "handling"]
    /\ UNCHANGED <<mail, work, store, lost>>

-----------------------------------------------------------------------------
(* 3pl.message._poll_inbound *)

(* The search for the source_hash, which sees the transaction's own rows. *)
Duplicate(c) == row[c] # "none" \/ write["core"][c] # "none"

(* _detect_inbound_type gives a type (XML it does not know has none). *)
BugNoDefault(c) ==          \* seeded fault: a CSV without a known heading has none
    Kind[c] \notin {"other_xml", "blank", "inventory_report"}
Recognised(c) == Kind[c] \notin {"other_xml", "blank"}

StoreFile(f) ==
    LET c == Payload[f] IN
    /\ pc["core"] = "handling" /\ f \in got["core"]
    /\ got' = [got EXCEPT !["core"] = @ \ {f}]
    /\ write' = IF Recognised(c) /\ ~Duplicate(c)
                THEN [write EXCEPT !["core"][c] = "received"] ELSE write
    /\ UNCHANGED <<mail, pc, taken, direct, todo, store, lost>>

(* The create raises before the database has seen it: the try is around the
   loop, so the connector's other files are given up with this one. *)
StoreRaises(f) ==
    /\ pc["core"] = "handling" /\ f \in got["core"]
    /\ Recognised(Payload[f]) /\ ~Duplicate(Payload[f])
    /\ lost' = lost \union got["core"]
    /\ got' = [got EXCEPT !["core"] = {}]
    /\ UNCHANGED <<mail, pc, taken, write, direct, todo, store>>

-----------------------------------------------------------------------------
(* mf.inbound.cron._poll_inventory_reports *)

(* A blank file and one over 50 MB are passed over with a warning, although the
   poll has removed them from the mailbox.  An XML document is given to the CSV
   parser of the inventory report, which finds no product in any line: nothing
   happens, and no error. *)
Applicable(c) == Kind[c] \in Csv /\ c \notin Oversized

ApplyFile(f) ==
    /\ pc["mf"] = "handling" /\ f \in got["mf"]
    /\ got' = [got EXCEPT !["mf"] = @ \ {f}]
    /\ direct' = IF Applicable(Payload[f]) THEN direct \union {f} ELSE direct
    /\ UNCHANGED <<mail, pc, taken, write, todo, store, lost>>

(* apply_csv raises; the error is logged and the next file is handled.  There is
   no savepoint: the lines before the one that raised stay applied. *)
ApplyRaises(f) ==
    /\ pc["mf"] = "handling" /\ f \in got["mf"]
    /\ Applicable(Payload[f])
    /\ got' = [got EXCEPT !["mf"] = @ \ {f}]
    /\ lost' = lost \union {f}
    /\ \E some \in {{}, {f}} : direct' = direct \union some
    /\ UNCHANGED <<mail, pc, taken, write, todo, store>>

HandledAll(p) ==
    /\ pc[p] = "handling" /\ got[p] = {}
    /\ pc' = [pc EXCEPT ![p] = IF p = "mf" THEN "processing" ELSE "ending"]
    /\ UNCHANGED <<mail, work, store, lost>>

-----------------------------------------------------------------------------
(* mf.inbound.cron._process_inbound_messages *)

HasHandler(c) == Kind[c] \in Handled

BugNoAckHandler(c) == Kind[c] \in Handled \ {"so_acknowledgement"}  \* seeded fault
Dispatches(c) == HasHandler(c)

(* The handler returns, or raises - before its first write or, with no savepoint
   around it, after some - and the message is dead-lettered; a type without a
   handler is passed over. *)
ProcessMessage(c) ==
    /\ pc["mf"] = "processing" /\ c \in todo
    /\ todo' = todo \ {c}
    /\ IF Dispatches(c)
       THEN \E s \in {"applied", "dead", "partly"} : write' = [write EXCEPT !["mf"][c] = s]
       ELSE UNCHANGED write
    /\ UNCHANGED <<mail, pc, got, taken, direct, store, lost>>

ProcessedAll ==
    /\ pc["mf"] = "processing" /\ todo = {}
    /\ pc' = [pc EXCEPT !["mf"] = "ending"]
    /\ UNCHANGED <<mail, work, store, lost>>

-----------------------------------------------------------------------------
(* The ends of a transaction *)

Ends(p) ==
    /\ pc' = [pc EXCEPT ![p] = "idle"]
    /\ names' = [names EXCEPT ![p] = {}]
    /\ reading' = [reading EXCEPT ![p] = None]
    /\ got' = [got EXCEPT ![p] = {}]
    /\ taken' = [taken EXCEPT ![p] = {}]
    /\ write' = [write EXCEPT ![p] = Unwritten]
    /\ direct' = IF p = "mf" THEN {} ELSE direct
    /\ todo' = IF p = "mf" THEN {} ELSE todo
    /\ UNCHANGED <<mailbox, delivered, pickups>>

CommitRun(p) ==
    /\ pc[p] = "ending"
    /\ Ends(p)
    /\ row' = [c \in Content |-> CASE write[p][c] = "none"   -> row[c]
                                   [] write[p][c] = "partly" -> "dead"
                                   [] OTHER                  -> write[p][c]]
    /\ applied' =
        IF p = "core" THEN applied
        ELSE [file |-> [f \in File |-> IF f \in direct THEN applied.file[f] + 1
                                       ELSE applied.file[f]],
              msg  |-> [c \in Content |-> IF write[p][c] \in {"applied", "partly"}
                                          THEN applied.msg[c] + 1
                                          ELSE applied.msg[c]]]
    /\ UNCHANGED lost

(* The process dies: the transaction is rolled back, the mailbox is not. *)
CrashRun(p) ==
    /\ pc[p] # "idle"
    /\ Ends(p)
    /\ lost' = lost \union taken[p]
    /\ UNCHANGED store

(* The database refuses a statement for file f (a write that another
   transaction was faster with, a violated constraint).  The error is caught
   and logged, but the transaction is aborted: every later statement fails,
   the first one outside a try ends the run, and all of it is rolled back. *)
FileAbortsRun(p, f) ==
    /\ pc[p] = "handling" /\ f \in got[p]
    /\ lost' = lost \union taken[p]
    /\ Ends(p)
    /\ UNCHANGED store

(* _dead_letter is called outside of any try.  It fails on a transaction that the
   handler's error has aborted, and for a notify user who may not see the message
   (activity_schedule raises); the run ends, and all of it is rolled back.  The
   next run finds the same message. *)
MessageAbortsRun(c) ==
    /\ pc["mf"] = "processing" /\ c \in todo /\ HasHandler(c)
    /\ lost' = lost \union taken["mf"]
    /\ Ends("mf")
    /\ UNCHANGED store

(* The Requeue button, shown on every dead message, inbound ones included. *)
RequeueInbound(c) ==
    /\ row[c] = "dead"
    /\ row' = [row EXCEPT ![c] = "queued"]
    /\ UNCHANGED <<mail, pc, work, applied, lost>>

-----------------------------------------------------------------------------
Works(p) ==
    \/ Start(p) \/ ReadFile(p) \/ RemoveFile(p) \/ PollReturns(p)
    \/ HandledAll(p) \/ CommitRun(p)
    \/ p = "core" /\ \E f \in File : StoreFile(f)
    \/ p = "mf" /\ \E f \in File : ApplyFile(f)
    \/ p = "mf" /\ \E c \in Content : ProcessMessage(c)
    \/ p = "mf" /\ ProcessedAll

Next ==
    \/ \E f \in File : Deliver(f) \/ StoreRaises(f) \/ ApplyRaises(f)
    \/ \E p \in Poller :
        \/ Works(p) \/ ExchangeBreaks(p) \/ CrashRun(p)
        \/ \E f \in File : FileAbortsRun(p, f)
    \/ \E c \in Content : MessageAbortsRun(c) \/ RequeueInbound(c)

Spec == Init /\ [][Next]_vars

(* Both crons are activated: Odoo starts a cron whenever its interval has
   passed, and a run goes on. *)
FairSpec == Spec /\ \A p \in Poller : WF_vars(Works(p))

-----------------------------------------------------------------------------
(* Properties *)

(* Two polls of the mailbox at the same time never both get a file, and no
   file is got again later (sftp.py:135-137: remove, then append). *)
PickedUpOnce == \A f \in File : pickups[f] <= 1

(* The effect of a message is committed once, whatever is delivered again,
   rolled back or run again: with the state applied, or, what a handler wrote
   before it raised, with the state dead.  A message not settled has none. *)
AppliedIsOnce ==
    \A c \in Content :
        /\ applied.msg[c] <= 1
        /\ applied.msg[c] = 1 => row[c] \in {"applied", "dead", "queued"}
        /\ row[c] = "applied" => applied.msg[c] = 1

(* A CSV file that has left the mailbox is in a cron's hands, stored, applied,
   refused with an error, or went down in an accident - or is over 50 MB: the
   search for duplicates, the removal and the two paths lose no other. *)
NoCsvUnaccounted ==
    \A f \in delivered \ mailbox :
        LET c == Payload[f] IN
        Applicable(c) =>
            \/ \E p \in Poller : f \in taken[p]
            \/ row[c] # "none"
            \/ applied.file[f] > 0
            \/ f \in lost

Settles(c) ==
    row[c] = "received" /\ Kind[c] # "inward_confirmation" ~> row[c] \in {"applied", "dead"}

(* A stored confirmation, acknowledgement or report is applied or dead in the
   end, although runs die, abort and are repeated - unless from some time on
   every run of the cron is rolled back. *)
StoredSettles ==
    <>[][~CommitRun("mf")]_vars \/ \A c \in Content : Settles(c)

-----------------------------------------------------------------------------
(* The crons implement InboundDelivery *)

Place(f) ==
    IF f \notin delivered THEN "away"
    ELSE IF f \in mailbox THEN "mailbox"
    ELSE IF f \in taken["core"] THEN "core"
    ELSE IF f \in taken["mf"] THEN "mf"
    ELSE "gone"

Delivery == INSTANCE InboundDelivery WITH
    place <- [f \in File |-> Place(f)],
    message <- row

(* Two polls that list, read and remove the same files, and two transactions
   that see their snapshots only, look as if each file were handed to one of
   them and each run did all of its work in one step or none
   (sftp.py:118-144, message.py:271-312, inbound_cron.py:41-216). *)
DeliverySpec == Delivery!Spec

-----------------------------------------------------------------------------
(* The inductive invariant *)

(* A cron that does not run has written nothing, reads while it picks up, and is
   past its files when it goes on. *)
PollInv ==
    \A p \in Poller :
        /\ pc[p] = "idle" => write[p] = Unwritten
        /\ reading[p] # None => pc[p] = "picking"
        /\ pc[p] \in {"processing", "ending"} => got[p] = {}

(* What lies in the mailbox nobody has picked up. *)
PickedInv ==
    /\ PickedUpOnce
    /\ \A f \in File : f \in mailbox \/ f \notin delivered => pickups[f] = 0

(* "core" creates rows and "mf" settles received ones: neither writes a row that
   the other may have changed since. *)
WriteInv ==
    \A c \in Content :
        /\ \/ write["core"][c] = "none"
           \/ write["core"][c] = "received" /\ row[c] = "none"
        /\ \/ write["mf"][c] = "none"
           \/ write["mf"][c] \in {"applied", "dead", "partly"} /\ row[c] = "received" /\ c \notin todo

(* A file is with one cron at most, and then not in the mailbox; its effect is
   still to come.  A row that "core" inserts is of a file it has. *)
HolderInv ==
    /\ taken["core"] \intersect taken["mf"] = {}
    /\ \A f \in File :
        \/ f \in delivered \ mailbox
        \/ applied.file[f] = 0 /\ \A p \in Poller : f \notin taken[p]
    /\ \A f \in taken["core"] \union taken["mf"] : applied.file[f] = 0
    /\ \A f \in File : applied.file[f] <= 1
    /\ \A c \in Content :
        write["core"][c] # "none" => \E f \in taken["core"] : Payload[f] = c

(* What becomes of the files an open transaction has picked up. *)
TakenInv ==
    \A f \in File :
        LET c == Payload[f] IN
        Applicable(c) =>
            /\ f \in taken["core"] =>
                f \in got["core"] \/ row[c] # "none" \/ write["core"][c] # "none"
                    \/ f \in lost
            /\ f \in taken["mf"] => f \in got["mf"] \union direct \union lost

IInv ==
    /\ TypeOK /\ PollInv /\ PickedInv /\ HolderInv /\ WriteInv /\ TakenInv
    /\ AppliedIsOnce /\ NoCsvUnaccounted
================================================================================
