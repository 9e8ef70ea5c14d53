---------------------------- MODULE Subscription ----------------------------
(***************************************************************************)
(* One row of the table `subscription` and the UPSERT by which the service *)
(* UnsubscribeMe writes it.  The conflict branch copies unsubscribed_at,   *)
(* unsubscribe_source and unsubscribe_event_id together from the request,  *)
(* so a written row is represented by the event it was copied from.        *)
(***************************************************************************)
EXTENDS Integers

CONSTANTS
  Event,          \* the unsubscribe events that decode (one value per event_id)
  RequestedAt,    \* the event's requested_at, in milliseconds
  NoRow,          \* no row with this (user_id, writer_id)
  Subscribed      \* a row with unsubscribed_at NULL, which the schema allows

ASSUME EventAssumption ==
  /\ RequestedAt \in [Event -> Nat]
  /\ NoRow # Subscribed
  /\ {NoRow, Subscribed} \cap Event = {}

Row == Event \cup {NoRow, Subscribed}

\* Mutant: the conflict branch has no WHERE clause.
ReplacesAlways(e, old) == old # NoRow

\* Mutant: a NULL time is compared like any other.
ReplacesWritten(e, old) == old \in Event /\ RequestedAt[e] < RequestedAt[old]

\* The WHERE clause of the conflict branch: the time of the existing row is
\* NULL, or strictly later than the time of the request.
Replaces(e, old) ==
  \/ old = Subscribed
  \/ old \in Event /\ RequestedAt[e] < RequestedAt[old]

\* The row after the statement: inserted, updated, or left alone.
Upsert(old, e) == IF old = NoRow \/ Replaces(e, old) THEN e ELSE old

\* The reader is unsubscribed at least since the time this event asks for.
HonouredBy(e, current) ==
  /\ current \in Event
  /\ RequestedAt[current] <= RequestedAt[e]
=============================================================================
