------------------------------ MODULE AuditLog ------------------------------
(***************************************************************************)
(* The audit log of app/audit.py in file mode: record appends one JSON     *)
(* line, read_all reads the file back for the envelope and refuses a log   *)
(* that has lost data.                                                     *)
(*                                                                         *)
(* os.write may take only a part of the line (a short write, which record  *)
(* continues, or a process killed or failing before it can).  Of a line's  *)
(* bytes only four points matter: its start, a cut between two characters, *)
(* a cut inside a character (the line is UTF-8, not ASCII), and the whole  *)
(* JSON text without its newline.  The file is the rows that end in a      *)
(* newline and the unterminated rest, tail.                                *)
(***************************************************************************)
EXTENDS Naturals, Sequences, SequencesExt

CONSTANTS
    Events,     \* the events recorded, each once
    Writers,    \* threads inside record
    MaxShort,   \* bound on short writes
    MaxFaults,  \* bound on crashes and failing writes
    NoEvent,    \* no event
    Garbled,    \* a row, or the tail, that is not UTF-8 any more
    Corrupt,    \* a row no JSON parser takes
    Blank       \* an empty row

ASSUME BoundsAssumption ==
    /\ MaxShort \in Nat
    /\ MaxFaults \in Nat

VARIABLES
    rows,      \* the terminated rows of events.jsonl
    tail,      \* what follows the last newline: nothing (NoEvent), Garbled, or
               \* text that ends somewhere in the line of an event
    at,        \* how far each writer is in its line
    event,     \* the event it appends
    recorded,  \* history: the events whose record returned, in order
    shorts, faults

fileVars == <<rows, tail, at, event, recorded, shorts, faults>>

Cuts == {"text", "char", "whole"}

(* A tail that ends at the cut upto of the line of one event, and whether  *)
(* that line is all there is in it.                                        *)
Part == [of : Events, upto : Cuts, clean : BOOLEAN]

(* Rows of different kinds are told apart, and from no row at all. *)
ASSUME RowsAssumption ==
    /\ NoEvent \notin Events \cup Part \cup {Garbled}
    /\ Garbled \notin Events \cup Part \cup {Corrupt, Blank}
    /\ Corrupt \notin Events \cup {Blank}
    /\ Blank \notin Events

LogInit ==
    /\ rows = <<>>
    /\ tail = NoEvent
    /\ at = [w \in Writers |-> "idle"]
    /\ event = [w \in Writers |-> NoEvent]
    /\ recorded = <<>>
    /\ shorts = 0
    /\ faults = 0

-----------------------------------------------------------------------------
(* What the tail t becomes when the line of e from p up to q is appended.  *)
(* Half a character next to anything but its other half is not UTF-8 (were *)
(* it to fit by chance, an earlier row is unreadable already).             *)
Join(t, e, p, q) ==
    LET mid == t \notin {NoEvent, Garbled}
        own == (t = NoEvent /\ p = "start") \/ (mid /\ t.of = e /\ t.upto = p)
        torn == p = "char" \/ t = Garbled \/ (mid /\ t.upto = "char")
    IN  IF p = "whole" THEN t
        ELSE IF ~own /\ torn THEN Garbled
        ELSE [of |-> e, upto |-> q, clean |-> own /\ (t = NoEvent \/ t.clean)]

(* How the tail t reads as a row. *)
Closed(t) ==
    IF t = NoEvent THEN Blank
    ELSE IF t = Garbled THEN Garbled
    ELSE IF t.upto = "char" THEN Garbled
    ELSE IF t.clean /\ t.upto = "whole" THEN t.of
    ELSE Corrupt

(* Events somebody has started to record, in this or in an earlier process. *)
Fresh(e) ==
    /\ ~Contains(rows, e) /\ ~Contains(recorded, e)
    /\ tail \notin [of : {e}, upto : Cuts, clean : BOOLEAN]
    /\ \A w \in Writers : event[w] # e

Return(w) ==
    /\ at' = [at EXCEPT ![w] = "idle"]
    /\ event' = [event EXCEPT ![w] = NoEvent]

(* audit.record(e): the line is assembled, the file opened with O_APPEND. *)
Begin(w, e) ==
    /\ at[w] = "idle"
    /\ Fresh(e)
    /\ at' = [at EXCEPT ![w] = "start"]
    /\ event' = [event EXCEPT ![w] = e]
    /\ UNCHANGED <<rows, tail, recorded, shorts, faults>>

(* os.write takes the line, or what is left of it, newline included: it is *)
(* appended to whatever the file ends in by now, and record returns.       *)
WriteOut(w) ==
    /\ at[w] # "idle"
    /\ rows' = Append(rows, Closed(Join(tail, event[w], at[w], "whole")))
    /\ tail' = NoEvent
    /\ recorded' = Append(recorded, event[w])
    /\ Return(w)
    /\ UNCHANGED <<shorts, faults>>

(* Deviation: the count os.write returns is not looked at. *)
ShortWriteUnnoticed(w) ==
    /\ at[w] \in {"start", "text", "char"}
    /\ shorts < MaxShort
    /\ shorts' = shorts + 1
    /\ \E q \in Cuts : tail' = Join(tail, event[w], at[w], q)
    /\ recorded' = Append(recorded, event[w])
    /\ Return(w)
    /\ UNCHANGED <<rows, faults>>

(* os.write takes a part; the while loop goes on. *)
ShortWrite(w) ==
    /\ at[w] \in {"start", "text", "char"}
    /\ shorts < MaxShort
    /\ shorts' = shorts + 1
    /\ \E q \in Cuts :
        /\ tail' = Join(tail, event[w], at[w], q)
        /\ at' = [at EXCEPT ![w] = q]
    /\ UNCHANGED <<rows, event, recorded, faults>>

(* The write raises (a full disk): record raises, what is written stays. *)
WriteFails(w) ==
    /\ at[w] # "idle"
    /\ faults < MaxFaults
    /\ faults' = faults + 1
    /\ Return(w)
    /\ UNCHANGED <<rows, tail, recorded, shorts>>

(* The process is killed with all its writers. *)
Crash ==
    /\ faults < MaxFaults
    /\ faults' = faults + 1
    /\ at' = [w \in Writers |-> "idle"]
    /\ event' = [w \in Writers |-> NoEvent]
    /\ UNCHANGED <<rows, tail, recorded, shorts>>

Record(w) ==
    \/ \E e \in Events : Begin(w, e)
    \/ WriteOut(w) \/ ShortWrite(w) \/ WriteFails(w)

LogNext == Crash \/ \E w \in Writers : Record(w)

LogSpec == LogInit /\ [][LogNext]_fileVars

-----------------------------------------------------------------------------
(* The file split on newlines, an empty last piece dropped. *)
Lines == IF tail = NoEvent THEN rows ELSE Append(rows, Closed(tail))

(* read_all raises on a file that is not UTF-8, which it decodes before it *)
(* looks at any row, and on a corrupt row that is not the last one ...     *)
Refuses ==
    \/ \E k \in 1..Len(Lines) : Lines[k] = Garbled
    \/ \E k \in 1..(Len(Lines) - 1) : Lines[k] = Corrupt

(* ... and returns the rest otherwise: what the loop has parsed after k rows. *)
Parsed[k \in 0..Len(Lines)] ==
    IF k = 0 THEN <<>>
    ELSE IF Lines[k] \in Events THEN Append(Parsed[k - 1], Lines[k])
    ELSE Parsed[k - 1]

ReadAll == Parsed[Len(Lines)]

(* Every variable has a value the code can give it, and a writer has an    *)
(* event in hand exactly while it is inside record.                        *)
LogTypeOK ==
    /\ rows \in Seq(Events \cup {Garbled, Corrupt, Blank})
    /\ tail \in Part \cup {NoEvent, Garbled}
    /\ at \in [Writers -> {"idle", "start"} \cup Cuts]
    /\ event \in [Writers -> Events \cup {NoEvent}]
    /\ recorded \in Seq(Events)
    /\ shorts \in 0..MaxShort
    /\ faults \in 0..MaxFaults
    /\ \A w \in Writers : at[w] = "idle" <=> event[w] = NoEvent

(* Whatever is short, fails, dies or lands in another's row: what read_all *)
(* returns, if it returns at all, is what was recorded in the order it was *)
(* recorded in, with at most one event more, whose record has not          *)
(* returned, or the newest one less.  No event is skipped, doubled,        *)
(* reordered or made of pieces (audit.py:146, :193-201).                   *)
ReadBackInOrder ==
    ~Refuses =>
        \/ IsPrefix(recorded, ReadAll) /\ Len(ReadAll) <= Len(recorded) + 1
        \/ recorded # <<>> /\ ReadAll = Front(recorded)

(* read_all never stops the decisions: "no other row can be partial" than  *)
(* the last one (audit.py:196).                                            *)
NeverRefuses == ~Refuses

(* "Exactly one bad row is tolerated: the last one" (audit.py:196): where  *)
(* read_all refuses, some row before the last is bad.                      *)
ToleratesLastRow == Refuses => \E k \in 1..(Len(Lines) - 1) : Lines[k] \notin Events

(* What read_all returns holds every event whose record returned: data the *)
(* envelope reads is lost only with an exception (audit.py:200).           *)
NoSilentLoss == ~Refuses => \A k \in DOMAIN recorded : Contains(ReadAll, recorded[k])
=============================================================================
