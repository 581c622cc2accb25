------------------------------ MODULE EventSink ------------------------------
(***************************************************************************)
(* The error bitmap s->error that Event_post() (event.c, outside the       *)
(* validation engine) keeps for a service: the bit of an event kind is set *)
(* by a FAILED or CHANGED event and cleared by a SUCCEEDED or CHANGEDNOT   *)
(* event.  The validators read it (IS_EVENT_SET) and post events in a      *)
(* fixed order, so a cycle's events are a sequence applied in turn.        *)
(***************************************************************************)
LOCAL INSTANCE SequencesExt

\* Event_post(s, kind, state, ...) as seen in s->error.
PostOne(error, e) ==
  IF e.state \in {"failed", "changed"} THEN error \cup {e.kind} ELSE error \ {e.kind}

\* The events of a sequence posted in order.
PostAll(error, evs) == FoldLeft(PostOne, error, evs)

\* The events of a set, whose order does not matter to the bitmap because
\* they all have one kind and one state.
AsSeq(evs) == SetToSeq(evs)

=============================================================================
