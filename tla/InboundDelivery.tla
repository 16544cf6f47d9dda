---------------------------- MODULE InboundDelivery ----------------------------
(***************************************************************************)
(* What the two crons that share one inbound mailbox promise of it.        *)
(*                                                                         *)
(* A file is handed to one cron, or disappears on the way, and never comes *)
(* back.  Only its holder does something with it, in one step for all that *)
(* it holds: "core" stores new messages, "mf" applies files and settles    *)
(* received messages; or it gives up, and nothing has happened.  There is  *)
(* nothing here of listings, snapshots, transactions or duplicates:        *)
(* InboundPipeline implements this specification.                          *)
(***************************************************************************)
EXTENDS Naturals

CONSTANTS File, Content, Payload    \* as in InboundPipeline

VARIABLES
    place,      \* place[f]: away, in the mailbox, with a cron, or gone
    message,    \* message[c]: the state of the message with content c
    applied     \* how often it had an effect: [file: directly, msg: as a message]

vars == <<place, message, applied>>

Init ==
    /\ place = [f \in File |-> "away"]
    /\ message = [c \in Content |-> "none"]
    /\ applied = [file |-> [f \in File |-> 0], msg |-> [c \in Content |-> 0]]

Held(p) == {f \in File : place[f] = p}

Moves(f, from, to) ==
    /\ place[f] = from /\ place' = [place EXCEPT ![f] = to]
    /\ UNCHANGED <<message, applied>>

Deliver(f) == Moves(f, "away", "mailbox")
PickUp(p, f) == Moves(f, "mailbox", p)
Vanish(f) == Moves(f, "mailbox", "gone")

(* A cron is through with what it holds. *)
LetGo(p) == place' = [f \in File |-> IF f \in Held(p) THEN "gone" ELSE place[f]]

GiveUp == UNCHANGED <<message, applied>>

(* A message is made of a file that "core" holds, and of new content. *)
Store(new) ==
    /\ \A c \in new : message[c] = "none" /\ \E f \in Held("core") : Payload[f] = c
    /\ message' = [c \in Content |-> IF c \in new THEN "received" ELSE message[c]]
    /\ UNCHANGED applied

(* Each file is applied once at most; a message that is settled was received and
   is not afterwards.  What is done has an effect; what is dead may have one, as
   far as it came. *)
Settle(files, done, dead, touched) ==
    /\ files \subseteq Held("mf")
    /\ done \intersect dead = {}
    /\ done \subseteq touched /\ touched \subseteq done \union dead
    /\ \A c \in done \union dead : message[c] = "received"
    /\ message' = [c \in Content |-> IF c \in done THEN "applied"
                                     ELSE IF c \in dead THEN "dead" ELSE message[c]]
    /\ applied' = [file |-> [f \in File |-> applied.file[f] + IF f \in files THEN 1 ELSE 0],
                   msg |-> [c \in Content |-> applied.msg[c] + IF c \in touched THEN 1 ELSE 0]]

(* What the user puts back leaves the crons' reach: it is queued as if it were
   outbound. *)
Requeue(c) ==
    /\ message[c] = "dead"
    /\ message' = [message EXCEPT ![c] = "queued"]
    /\ UNCHANGED <<place, applied>>

Next ==
    \/ \E f \in File : Deliver(f) \/ Vanish(f) \/ PickUp("core", f) \/ PickUp("mf", f)
    \/ LetGo("core") /\ (GiveUp \/ \E new \in SUBSET Content : Store(new))
    \/ LetGo("mf") /\ (GiveUp \/ \E files \in SUBSET File,
                                    done, dead, touched \in SUBSET Content :
                                    Settle(files, done, dead, touched))
    \/ \E c \in Content : Requeue(c)

Spec == Init /\ [][Next]_vars
================================================================================
