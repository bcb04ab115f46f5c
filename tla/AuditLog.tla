------------------------------ MODULE AuditLog ------------------------------
(***************************************************************************)
(* The gateway's in-memory audit trail (apps/gateway/src/audit.ts).        *)
(*                                                                         *)
(* AuditLog.events is an array whose head is the newest event.  emit()     *)
(* puts an event in front and drops what exceeds the cap; list() returns   *)
(* a prefix.  An event is the record [action, actor, familyId]: the id,    *)
(* the timestamp, the address and the request id of an event take part in  *)
(* no property and are left out.                                           *)
(***************************************************************************)
EXTENDS Integers, Sequences

CONSTANT AuditCap      \* 1000 in the code

ASSUME AuditCapAssumption == AuditCap \in Nat \ {0}

\* Faulty variant: emit() that forgets to truncate.
EmitUncapped(log, event) == <<event>> \o log

\* AuditLog.emit: unshift, then truncate to the cap.
Emit(log, event) ==
    LET grown == <<event>> \o log
    IN  IF Len(grown) > AuditCap THEN SubSeq(grown, 1, AuditCap) ELSE grown

Recorded(log, event) == \E i \in DOMAIN log : log[i] = event

AtCapacity(log) == Len(log) = AuditCap

=============================================================================
