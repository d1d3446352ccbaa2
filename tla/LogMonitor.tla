------------------------------- MODULE LogMonitor -------------------------------
(***************************************************************************)
(* The autonomous loop's senses (archangeld monitor.rs and autoloop.rs):   *)
(* the incremental tailer of each watched file, the trigger patterns and   *)
(* the cooldown gate, against files that other programs append to,         *)
(* truncate and rotate.                                                    *)
(*                                                                         *)
(* A file is a sequence of cells.  A cell is a few bytes of a line: it may *)
(* hold a word some pattern matches, and the last cell of a line also      *)
(* holds its newline.                                                      *)
(***************************************************************************)
EXTENDS Integers, Sequences, SequencesExt, FiniteSets

CONSTANTS
  Sources,             \* monitor.sources, in the order they are polled
  Label,               \* labels of the trigger patterns
  NoWord,              \* a cell no pattern matches
  max_line_bytes,      \* MonitorLimits, in cells
  max_lines_per_poll,
  window,              \* monitor.cooldown_secs
  MaxLines,            \* bound: lines written
  MaxTime,             \* bound: the clock
  MaxReplace           \* bound: truncations and rotations

Source == Range(Sources)

ASSUME MonitorAssumption ==
  /\ Sources \in Seq(Source) /\ NoWord \notin Label
  /\ max_line_bytes \in Nat \ {0}
  /\ max_lines_per_poll \in Nat \ {0}
  /\ window \in Nat

VARIABLES
  content, present,  \* the watched files
  offset,            \* LogTailer, per source
  last,              \* CooldownGate: fingerprint -> time it last fired
  alerts,            \* actionable alerts the loop has yet to assess
  now,
  lines, replaced,   \* bounded counters: lines written, files replaced
  base, seen,        \* history: where reading began, and the lines read since
  unnoticed,         \* history: sources replaced without a poll having seen it
  fired, suppressed  \* history: fingerprints with their times

files == <<content, present, lines, replaced>>
gate == <<last, fired, suppressed>>
tailer == <<offset, base, seen>>
vars == <<files, tailer, unnoticed, gate, alerts, now>>

(* LogTailer::new starts at the current end of each file.                  *)
Init ==
  /\ content \in [Source -> {<<>>, <<[word |-> NoWord, eol |-> TRUE]>>}]
  /\ present = [s \in Source |-> content[s] # <<>>]
  /\ offset = [s \in Source |-> Len(content[s])]
  /\ last = <<>>
  /\ alerts = <<>>
  /\ now = 0
  /\ lines = 0 /\ replaced = 0
  /\ base = offset
  /\ seen = [s \in Source |-> <<>>]
  /\ unnoticed = {}
  /\ fired = <<>> /\ suppressed = {}

-----------------------------------------------------------------------------
(* The programs that write the logs.                                       *)
Open(s) == content[s] # <<>> /\ ~Last(content[s]).eol

Grow(s, cells) ==
  /\ content' = [content EXCEPT ![s] = @ \o cells]
  /\ present' = [present EXCEPT ![s] = TRUE]
  /\ UNCHANGED <<tailer, unnoticed, gate, alerts, now, replaced>>

(* A line of one or two cells, or only the beginning of one.               *)
WriteLine(s, word) ==
  /\ lines < MaxLines /\ ~Open(s)
  /\ lines' = lines + 1
  /\ \/ Grow(s, <<[word |-> word, eol |-> TRUE]>>)
     \/ Grow(s, <<[word |-> NoWord, eol |-> FALSE], [word |-> word, eol |-> TRUE]>>)
     \/ Grow(s, <<[word |-> word, eol |-> FALSE]>>)
FinishLine(s) ==
  /\ Open(s)
  /\ lines' = lines
  /\ Grow(s, <<[word |-> NoWord, eol |-> TRUE]>>)

(* Truncated in place, or renamed away for a new file to appear later.     *)
Replace(s) ==
  /\ present[s] /\ replaced < MaxReplace
  /\ replaced' = replaced + 1
  /\ content' = [content EXCEPT ![s] = <<>>]
  /\ present' \in {present, [present EXCEPT ![s] = FALSE]}
  /\ unnoticed' = IF offset[s] > 0 THEN unnoticed \union {s} ELSE unnoticed
  /\ IF offset[s] > 0 THEN UNCHANGED tailer
     ELSE /\ base' = [base EXCEPT ![s] = 0]
          /\ seen' = [seen EXCEPT ![s] = <<>>]
          /\ UNCHANGED offset
  /\ UNCHANGED <<lines, gate, alerts, now>>

Tick ==
  /\ now < MaxTime
  /\ now' = now + 1
  /\ UNCHANGED <<files, tailer, unnoticed, gate, alerts>>

-----------------------------------------------------------------------------
(* LogTailer::poll                                                         *)

(* A file shorter than the offset was replaced: start over.                *)
Start(s) == IF Len(content[s]) < offset[s] THEN 0 ELSE offset[s]

(* One round of its loop reads up to the next newline.  A line without one *)
(* is left for a later poll, and so is what is beyond max_lines_per_poll.  *)
Ends(s, from) == {i \in from + 1 .. Len(content[s]) : content[s][i].eol}
Cursor(s) ==
  LET after[k \in 0 .. max_lines_per_poll] ==
        IF k = 0 THEN Start(s)
        ELSE IF Ends(s, after[k - 1]) = {} THEN after[k - 1] ELSE Min(Ends(s, after[k - 1]))
  IN  after
Rounds(s) ==
  Min({n \in 0 .. max_lines_per_poll : n < max_lines_per_poll => Ends(s, Cursor(s)[n]) = {}})

Read(s) == [k \in 1 .. Rounds(s) |-> SubSeq(content[s], Cursor(s)[k - 1] + 1, Cursor(s)[k])]
ConsumedBounded(s) ==
  Start(s) + FoldLeft(LAMBDA sum, line : sum + Min({Len(line), max_line_bytes}), 0, Read(s))
Consumed(s) == Cursor(s)[Rounds(s)]

(* The labels that match what max_line_bytes leaves of a line.             *)
matches(line) ==
  {line[i].word : i \in {i \in DOMAIN line : i <= max_line_bytes}} \ {NoWord}

(* LogMonitor::poll over the sources in turn: one that cannot be opened is *)
(* skipped, and one that fails to be read may have had its offset reset.   *)
Outcome == [Source -> {"read", "open_error", "read_error"}]

Alerts(s) ==
  LET after[k \in 0 .. Rounds(s)] ==
        IF k = 0 THEN <<>>
        ELSE IF matches(Read(s)[k]) = {} THEN after[k - 1]
        ELSE Append(after[k - 1], [source |-> s, matched |-> matches(Read(s)[k])])
  IN  after[Rounds(s)]
Readable(s, outcome) == present[s] /\ outcome[s] = "read"

poll(outcome) ==
  FlattenSeq([n \in DOMAIN Sources |->
                IF Readable(Sources[n], outcome) THEN Alerts(Sources[n]) ELSE <<>>])

(* The key of an alert is its source and labels, not its text.             *)
fingerprint(alert) == alert

(* CooldownGate::admit, applied to the alerts of a poll one after another. *)
prune_early(l) ==
  [k \in {k \in DOMAIN l : now - l[k] < window - 1} |-> l[k]]
prune(l) ==
  [k \in {k \in DOMAIN l : now - l[k] < window} |-> l[k]]
insert(l, key) == [k \in DOMAIN l \union {key} |-> IF k = key THEN now ELSE l[k]]
admit(state, alert) ==
  LET kept == prune(state.last)
  IN  IF fingerprint(alert) \in DOMAIN kept
      THEN [state EXCEPT !.last = kept, !.held = Append(@, alert)]
      ELSE [state EXCEPT !.last = insert(kept, fingerprint(alert)), !.pass = Append(@, alert)]

Screened(found) ==
  LET after[k \in 0 .. Len(found)] ==
        IF k = 0 THEN [last |-> last, pass |-> <<>>, held |-> <<>>]
        ELSE admit(after[k - 1], found[k])
  IN  after[Len(found)]

(* poll_actionable: run_monitor_loop polls again when every alert of the   *)
(* poll before has been assessed.                                          *)
poll_actionable ==
  /\ alerts = <<>>
  /\ \E outcome \in Outcome : \E gated \in {Screened(poll(outcome))} :
       LET tried == {s \in Source : present[s] /\ outcome[s] # "open_error"}
           read  == {s \in tried : outcome[s] = "read"}
           reset == {s \in tried : Len(content[s]) < offset[s]}
       IN  /\ offset' = [s \in Source |-> CASE s \in read -> Consumed(s)
                                            [] s \in tried \ read -> Start(s)
                                            [] OTHER -> offset[s]]
           /\ base' = [s \in Source |-> IF s \in reset THEN 0 ELSE base[s]]
           /\ seen' = [s \in Source |-> (IF s \in reset THEN <<>> ELSE seen[s])
                                        \o (IF s \in read THEN Read(s) ELSE <<>>)]
           /\ unnoticed' = unnoticed \ reset
           /\ last' = gated.last
           /\ alerts' = gated.pass
           /\ fired' = fired \o [k \in DOMAIN gated.pass |-> [key |-> fingerprint(gated.pass[k]), at |-> now]]
           /\ suppressed' = suppressed \union {[key |-> fingerprint(a), at |-> now] : a \in Range(gated.held)}
  /\ UNCHANGED <<files, now>>

(* run_monitor_loop hands the next alert to run_task; what that does is    *)
(* the orchestrator's affair, and whatever comes of it the loop goes on.   *)
assess ==
  /\ alerts # <<>>
  /\ alerts' = Tail(alerts)
  /\ UNCHANGED <<files, tailer, unnoticed, gate, now>>

Next ==
  \/ poll_actionable \/ assess
  \/ \E s \in Source : \/ \E word \in Label \union {NoWord} : WriteLine(s, word)
                       \/ FinishLine(s) \/ Replace(s)
  \/ Tick

Spec == Init /\ [][Next]_vars

-----------------------------------------------------------------------------
Cell == [word : Label \union {NoWord}, eol : BOOLEAN]
Alert == [source : Source, matched : SUBSET Label]

TypeOK ==
  /\ content \in [Source -> Seq(Cell)]
  /\ present \in [Source -> BOOLEAN]
  /\ offset \in [Source -> Nat] /\ base \in [Source -> Nat]
  /\ seen \in [Source -> Seq(Seq(Cell))]
  /\ unnoticed \subseteq Source
  /\ now \in Nat
  /\ DOMAIN last \subseteq Alert /\ last \in [DOMAIN last -> 0 .. now]
  /\ alerts \in Seq(Alert)
  /\ fired \in Seq([key : Alert, at : 0 .. now])

(* Nothing is read twice and nothing is dropped: the lines read from a     *)
(* file are, in order, the lines between where reading began and the       *)
(* offset, whole ones only, whatever the limits cut off and whichever      *)
(* polls failed, unless the file was replaced and no poll saw it shorter:  *)
(* from a file replaced and grown past the offset in between, the code     *)
(* goes on reading at the old offset (monitor.rs:143).                     *)
Whole(read) == \A k \in DOMAIN read : \A i \in DOMAIN read[k] : read[k][i].eol <=> i = Len(read[k])
ExactlyOnce ==
  \A s \in Source \ unnoticed :
    FlattenSeq(seen[s]) = SubSeq(content[s], base[s] + 1, offset[s]) /\ Whole(seen[s])

(* The anti-runaway rail: the same kind of event never passes the gate     *)
(* twice within the cooldown window.  Passes are timed by the poll; the    *)
(* loop hands what passed to the model later, one alert after the other    *)
(* (main.rs:420-428).                                                      *)
NoStorm ==
  \A i, j \in DOMAIN fired :
    i < j /\ fired[i].key = fired[j].key => fired[j].at - fired[i].at >= window

(* An alert is held back only in the window after one of its kind that was *)
(* passed on: suppression does not prolong itself.                         *)
SuppressedAfterFiring ==
  \A h \in suppressed : \E i \in DOMAIN fired :
    /\ fired[i].key = h.key
    /\ fired[i].at <= h.at /\ h.at - fired[i].at < window

(* The cooldown lets an event through once per window, no more often and   *)
(* no less (monitor.rs CooldownGate).                                      *)
CooldownExact == NoStorm /\ SuppressedAfterFiring

-----------------------------------------------------------------------------
(* What makes them inductive: a tailer is inside a file it knows, and the  *)
(* gate remembers firings only, none of the last window forgotten.         *)
Tailed ==
  \A s \in Source \ unnoticed : base[s] <= offset[s] /\ offset[s] <= Len(content[s])

Remembered ==
  /\ \A k \in DOMAIN last : \E i \in DOMAIN fired : fired[i] = [key |-> k, at |-> last[k]]
  /\ \A i \in DOMAIN fired :
       now - fired[i].at < window => /\ fired[i].key \in DOMAIN last
                                     /\ fired[i].at <= last[fired[i].key]

IInv == TypeOK /\ Tailed /\ ExactlyOnce /\ Remembered /\ CooldownExact
=============================================================================
