------------------------------ MODULE Transcript ------------------------------
(***************************************************************************)
(* One turn on an OpenClaw gateway, from what the agent says to the rows   *)
(* of the chat (runtimes/openclaw_ws.py, services.append_trigger_events).  *)
(*                                                                         *)
(* The gateway sends the whole of the current piece of text whenever a     *)
(* word is added; it may start the piece over; it sends every tool frame   *)
(* twice, as `agent` and as `session.tool`.  The daemon turns that into    *)
(* events, posts them in batches and drops a batch whose post fails; the   *)
(* backend turns the events into rows.  A word is a number, in the order   *)
(* in which they are said; the words of an error message are one word.     *)
(***************************************************************************)
EXTENDS Naturals, Sequences, SequencesExt

CONSTANTS
  Commands,   \* a tool with its input
  MaxWords,   \* bound: words said
  MaxTools,   \* bound: tool calls
  MaxLost     \* bound: posts that fail

TranscriptAssumption == MaxWords \in Nat /\ MaxTools \in Nat /\ MaxLost \in Nat

VARIABLES
  said,      \* what the agent did, piece by piece
  spoken,    \* words said so far
  called,    \* tool calls so far
  gateway,   \* the turn as the gateway sees it
  daemon,    \* the daemon's side: what it streamed, its batch
  verdict,   \* what the daemon makes of the turn, once it stops reading
  rows,      \* the rows of the trace
  reported,  \* the turn is reported to the backend
  excused,   \* history: what hit the transcript
  lost

vars == <<said, spoken, called, gateway, daemon, verdict, rows, reported, excused, lost>>

Words == 1..MaxWords
Calls == 1..MaxTools

(* A piece of what was said, and a row: both have the same shape.          *)
Text(w)    == [kind |-> "text", words |-> w]
Tool(c)    == [kind |-> "tool", command |-> c]
Result(c)  == [kind |-> "result", command |-> c]
IsText(p)  == p.kind = "text"

Excuses == {"lost",      \* a post failed
            "repeat",    \* a command was given a second time
            "restart",   \* a piece was started over after a tool
            "silence"}   \* the gateway was silent for 90 seconds

-----------------------------------------------------------------------------
(* The daemon.  streamed and collected are the text since the last tool.   *)

Daemon == [streamed  : Seq(Words), collected : Seq(Words),
           seen      : SUBSET ({"tool", "result"} \X Calls),
           batch     : Seq([kind : {"text"}, words : Seq(Words), replace : BOOLEAN]
                             \cup [kind : {"tool", "result"}, command : Commands])]

TextEvent(w, replace) == [kind |-> "text", words |-> w, replace |-> replace]

(* _snapshot_to_delta, and what the reader does with the delta.            *)
Snapshot(d, text) ==
  CASE IsPrefix(d.streamed, text) /\ d.streamed # text ->
         LET delta == SubSeq(text, Len(d.streamed) + 1, Len(text)) IN
         [d EXCEPT !.streamed = text, !.collected = @ \o delta,
                   !.batch = Append(@, TextEvent(delta, FALSE))]
    [] IsPrefix(text, d.streamed) -> d
    [] OTHER -> [d EXCEPT !.streamed = text, !.collected = text,
                          !.batch = Append(@, TextEvent(text, TRUE))]

(* A tool frame: a call is taken once, and the text starts afresh.         *)
ToolFrame(d, event, call) ==
  IF <<event.kind, call>> \in d.seen THEN d
  ELSE [streamed |-> <<>>, collected |-> <<>>, seen |-> d.seen \cup {<<event.kind, call>>},
        batch |-> Append(d.batch, event)]

(* Both deliveries of a frame.                                             *)
Twice(d, event, call) == ToolFrame(ToolFrame(d, event, call), event, call)

-----------------------------------------------------------------------------
(* The backend: append_trigger_events.  open is the row that text extends. *)

LatestText(rs) == LET T == {i \in DOMAIN rs : IsText(rs[i])} IN
                  IF T = {} THEN 0 ELSE CHOOSE i \in T : \A j \in T : j <= i
LatestOpen(rs) == IF rs # <<>> /\ IsText(Last(rs)) THEN Len(rs) ELSE 0

(* A rewrite sets the row, and any other text row of the trace goes.       *)
Rewrite(rs, i, words) ==
  LET set == [rs EXCEPT ![i] = Text(words)] IN
  IF \E j \in DOMAIN rs : j # i /\ IsText(rs[j])
  THEN SelectSeq(set, LAMBDA r : IsText(r) => r = Text(words))
  ELSE set

(* Mutant of TextRow: text goes to the latest text row, across tools.      *)
TextRowAcross(st, e) ==
  LET i == LatestText(st.rows) IN
  IF i = 0 THEN [rows |-> Append(st.rows, Text(e.words)), open |-> Len(st.rows) + 1]
  ELSE [rows |-> [st.rows EXCEPT ![i].words = @ \o e.words], open |-> i]

(* The row that text goes to; 0 is a new one.                              *)
TextGoesTo(st, e) ==
  CASE st.open # 0                -> st.open
    [] st.open = 0 /\ e.replace  -> LatestText(st.rows)
    [] st.open = 0 /\ ~e.replace -> LatestOpen(st.rows)

TextRow(st, e) ==
  LET i == TextGoesTo(st, e) IN
  CASE i = 0 -> [rows |-> Append(st.rows, Text(e.words)), open |-> Len(st.rows) + 1]
    [] i # 0 /\ ~e.replace -> [rows |-> [st.rows EXCEPT ![i].words = @ \o e.words], open |-> i]
    [] OTHER -> LET rs == Rewrite(st.rows, i, e.words) IN
                [rows |-> rs, open |-> LatestText(rs)]

(* A tool closes the text.  A command that is there already is dropped.    *)
ToolRow(st, e) ==
  [rows |-> IF Contains(st.rows, Tool(e.command)) THEN st.rows
            ELSE Append(st.rows, Tool(e.command)),
   open |-> 0]

ResultRow(st, e) == [rows |-> Append(st.rows, Result(e.command)), open |-> 0]

EventRow(st, e) == CASE e.kind = "text"   -> TextRow(st, e)
                     [] e.kind = "tool"   -> ToolRow(st, e)
                     [] e.kind = "result" -> ResultRow(st, e)

(* The rows and the open row once a batch is stored, event by event.       *)
Stored(rs, batch) ==
  LET after[k \in 0..Len(batch)] ==
        IF k = 0 THEN [rows |-> rs, open |-> 0] ELSE EventRow(after[k - 1], batch[k])
  IN after[Len(batch)]

-----------------------------------------------------------------------------
Init ==
  /\ said = <<>> /\ spoken = 0 /\ called = 0 /\ gateway = "talks"
  /\ daemon = [streamed |-> <<>>, collected |-> <<>>, seen |-> {}, batch |-> <<>>]
  /\ verdict = "none" /\ rows = <<>> /\ reported = FALSE /\ excused = {} /\ lost = 0

Reading == verdict = "none"
Read(d) == daemon' = IF Reading THEN d ELSE daemon

Talks  == gateway = "talks" /\ ~reported
Speaks == Talks /\ spoken < MaxWords /\ spoken' = spoken + 1
AtText == said # <<>> /\ IsText(Last(said))
Piecewise(p) == said' = IF AtText THEN Append(Front(said), p) ELSE Append(said, p)

(* The agent adds a word to its piece of text, or begins one.              *)
Longer == IF AtText THEN Append(Last(said).words, spoken + 1) ELSE <<spoken + 1>>
Say ==
  /\ Speaks /\ Piecewise(Text(Longer)) /\ Read(Snapshot(daemon, Longer))
  /\ UNCHANGED <<called, gateway, verdict, rows, reported, excused, lost>>

(* It starts the piece over.                                               *)
StartOver ==
  /\ Speaks /\ AtText
  /\ Piecewise(Text(<<spoken + 1>>)) /\ Read(Snapshot(daemon, <<spoken + 1>>))
  /\ excused' = excused \cup IF Len(said) > 1 THEN {"restart"} ELSE {}
  /\ UNCHANGED <<called, gateway, verdict, rows, reported, lost>>

(* It calls a tool, and the tool answers.                                  *)
Pending == said # <<>> /\ Last(said).kind = "tool"
Call(c) ==
  /\ Talks /\ ~Pending /\ called < MaxTools /\ called' = called + 1
  /\ said' = Append(said, Tool(c)) /\ Read(Twice(daemon, Tool(c), called + 1))
  /\ excused' = excused \cup IF Contains(said, Tool(c)) THEN {"repeat"} ELSE {}
  /\ UNCHANGED <<spoken, gateway, verdict, rows, reported, lost>>
Answer ==
  /\ Talks /\ Pending
  /\ LET r == Result(Last(said).command) IN
     said' = Append(said, r) /\ Read(Twice(daemon, r, called))
  /\ UNCHANGED <<spoken, called, gateway, verdict, rows, reported, excused, lost>>

(* The text of the turn: what a reader that stops makes its verdict from.  *)
Verdict == IF daemon.streamed # <<>> \/ daemon.collected # <<>> THEN "done" ELSE "failed"

(* The final frame has the whole piece once more; the reader stops.        *)
Final ==
  /\ Talks /\ ~Pending /\ gateway' = "ended"
  /\ verdict' = IF Reading THEN Verdict ELSE verdict
  /\ UNCHANGED <<said, spoken, called, daemon, rows, reported, excused, lost>>

(* The gateway reports an error; its message is streamed as text.          *)
Fail ==
  /\ Speaks /\ ~Pending /\ gateway' = "ended"
  /\ Piecewise(Text(Longer))
  /\ Read([daemon EXCEPT !.batch = Append(@, TextEvent(<<spoken + 1>>, FALSE))])
  /\ verdict' = IF Reading THEN "failed" ELSE verdict
  /\ UNCHANGED <<called, rows, reported, excused, lost>>

(* Nothing for 90 seconds, though the agent goes on: the reader gives up.  *)
Silence ==
  /\ Talks /\ Reading
  /\ verdict' = IF daemon.collected # <<>> THEN "done" ELSE "failed"
  /\ excused' = excused \cup {"silence"}
  /\ UNCHANGED <<said, spoken, called, gateway, daemon, rows, reported, lost>>

(* A batch is posted, every half second and when the reader has stopped.   *)
Flush ==
  /\ daemon.batch # <<>>
  /\ rows' = Stored(rows, daemon.batch).rows /\ daemon' = [daemon EXCEPT !.batch = <<>>]
  /\ UNCHANGED <<said, spoken, called, gateway, verdict, reported, excused, lost>>
FlushLost ==
  /\ daemon.batch # <<>> /\ lost < MaxLost /\ lost' = lost + 1
  /\ daemon' = [daemon EXCEPT !.batch = <<>>] /\ excused' = excused \cup {"lost"}
  /\ UNCHANGED <<said, spoken, called, gateway, verdict, rows, reported>>

(* complete_trigger, once the last batch is posted.                        *)
Report ==
  /\ ~Reading /\ daemon.batch = <<>> /\ ~reported /\ reported' = TRUE
  /\ UNCHANGED <<said, spoken, called, gateway, daemon, verdict, rows, excused, lost>>

Next == \/ Say \/ StartOver \/ Answer \/ Final \/ Fail \/ Silence
        \/ Flush \/ FlushLost \/ Report
        \/ \E c \in Commands : Call(c)

Spec == Init /\ [][Next]_vars

-----------------------------------------------------------------------------
TypeOK ==
  /\ spoken \in 0..MaxWords /\ called \in 0..MaxTools /\ lost \in 0..MaxLost
  /\ gateway \in {"talks", "ended"} /\ verdict \in {"none", "done", "failed"}
  /\ reported \in BOOLEAN /\ excused \subseteq Excuses
  /\ \A p \in ToSet(said) \cup ToSet(rows) : IF IsText(p) THEN p.words \in Seq(Words)
                                            ELSE p.command \in Commands

(* The rows of a finished turn are what the agent said and did, in its     *)
(* order, each tool once and each piece of text in a row of its own        *)
(* (append_trigger_events: "coalesced into one growing row", "a tool       *)
(* breaks the open text stream").  Excused are a lost post, a silence, and *)
(* two cases the code gets wrong: a command given twice in a turn, and a   *)
(* piece started over after a tool.                                        *)
TranscriptIsWhatWasSaid == reported /\ excused = {} => rows = said

(* No word is in the chat twice, or out of order, whatever posts are lost  *)
(* and however often the agent starts over (_snapshot_to_delta: "the UI    *)
(* shows the monologue looping").                                          *)
RowWords == FoldLeft(LAMBDA w, r : IF IsText(r) THEN w \o r.words ELSE w, <<>>, rows)
NoWordTwice == \A i, j \in DOMAIN RowWords : i < j => RowWords[i] < RowWords[j]
=============================================================================
