----------------------------- MODULE RetainedLog -----------------------------
(***************************************************************************)
(* What a partition promises its readers, whatever the buffer does inside: *)
(* an append-only history of messages, numbered from 0 in the order of     *)
(* their appends, of which a suffix is readable by offset.  The low-water  *)
(* mark of that suffix never goes back; a message that is readable at an   *)
(* offset is the one appended there.                                       *)
(***************************************************************************)
EXTENDS Integers, Sequences

CONSTANT Messages      \* the messages that may be appended

VARIABLES history,     \* all messages appended so far
          low,         \* the offset of the oldest readable message
          readable     \* what a read at each readable offset returns

vars == << history, low, readable >>

Readable(h, l) == [o \in l..(Len(h) - 1) |-> h[o + 1]]

Init == history = << >> /\ low = 0 /\ readable = Readable(<< >>, 0)

(* A message is appended; older ones, or in the extreme all of them, may   *)
(* go at the same time.                                                    *)
Publish ==
    /\ Len(history') = Len(history) + 1
    /\ history'[Len(history')] \in Messages
    /\ history' = Append(history, history'[Len(history')])
    /\ low' \in low..Len(history')
    /\ readable' = Readable(history', low')

(* Messages are dropped from the old end only.                             *)
Trim ==
    /\ low' \in low..Len(history)
    /\ readable' = Readable(history, low')
    /\ UNCHANGED history

Next == Publish \/ Trim

Spec == Init /\ [][Next]_vars
=============================================================================
