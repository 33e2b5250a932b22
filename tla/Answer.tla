-------------------------------- MODULE Answer --------------------------------
(***************************************************************************)
(* One answer on its way from an upstream to Kiro: the lines of the        *)
(* upstream's stream (process_byte_stream, parse_stream_line), the guard   *)
(* that turns their events into frames (create_stream_guard, ToolCalls)    *)
(* and the bill it ends with (resolve_settlement_tokens).                  *)
(*                                                                         *)
(* Pump, guard and client are joined by queues that keep order, so an      *)
(* event is handled when its line is read. Text is counted, not kept; a    *)
(* tool call's arguments are pieces <<call, number>>, whole JSON with the  *)
(* last. How Kiro puts calls together is taken from what ToolCalls says of *)
(* it. Gateway has the rest of the request around this.                    *)
(***************************************************************************)
EXTENDS Integers, SequencesExt

CONSTANTS
  ToolUses,        \* 1..n: the calls an upstream may make, in the order it opens them
  PiecesOf,        \* [ToolUses -> the number of pieces of their arguments, 0 for none]
  Dialects,        \* how upstreams speak: see DialectsKnown
  Counts,          \* what they count: <<prompt, cached, completion>>
  StopReasons,     \* subset of {"plain", "limit", "filter"}
  EstimatedInput,  \* the gateway's own estimate of the request
  MaxToolCalls, MaxToolPieces,     \* what one answer may carry
  Tolerated,                       \* garbled lines passed over
  MaxSaid, MaxReports, MaxNoise    \* bounds

\* Anthropic's, and three of OpenAI's and the compatible ones: calls told apart by index, by
\* an identity on every piece, or by one on the first piece only.
DialectsKnown == {"anthropic", "indexed", "named", "plain"}

ASSUME AnswerAssumption ==
  /\ ToolUses \subseteq Nat \ {0} /\ \A c \in ToolUses : 1..c \subseteq ToolUses
  /\ PiecesOf \in [ToolUses -> Nat] /\ Dialects \subseteq DialectsKnown
  /\ Counts \subseteq Nat \X Nat \X Nat
  /\ EstimatedInput \in Nat /\ MaxToolCalls \in Nat /\ Tolerated \in Nat

VARIABLES
  upstream,  \* what it has sent: pieces by call, its dialect, its reports, its noise
  tools,     \* ToolCalls: the buffers in the order they opened, and which one streams
  heard,     \* what the guard has counted: output, usage, the stop reason
  kiro,      \* what Kiro has put together: see Hears
  end        \* how the stream ended, and with which bill

answerVars == <<upstream, tools, heard, kiro, end>>

NoTokens == [uncached |-> 0, cached |-> 0, completion |-> 0, final |-> FALSE, restated |-> FALSE]

Open == end.how = "open"

----------------------------------------------------------------------------
(* Kiro.                                                                   *)

\* A frame of a call it does not know opens it; any other adds to the call it heard of last.
Hears(k, frame) ==
  LET of == IF frame.id \in DOMAIN k.calls THEN k.last ELSE frame.id IN
  [last  |-> of,
   calls |-> [c \in DOMAIN k.calls \cup {of} |->
                (IF c \in DOMAIN k.calls THEN k.calls[c] ELSE <<>>)
                \o (IF c = of THEN frame.pieces ELSE <<>>)],
   ended |-> IF frame.stop THEN k.ended \cup {of} ELSE k.ended]

HearsAll(k, frames) == FoldLeft(Hears, k, frames)

----------------------------------------------------------------------------
(* Tool calls.                                                             *)

EmptyBuffer == [index |-> 0, id |-> 0, named |-> FALSE, pieces |-> <<>>,
                announced |-> FALSE, sent |-> 0]

\* Its arguments are a whole JSON value.
WholeJson(buffer) ==
  buffer.pieces # <<>> /\ Last(buffer.pieces)[2] = PiecesOf[Last(buffer.pieces)[1]]

FirstWith(P(_)) ==
  LET found == {n \in DOMAIN tools.calls : P(tools.calls[n])} IN
  IF found = {} THEN 0 ELSE CHOOSE n \in found : \A m \in found : n <= m

\* Mutant: a piece with no index goes to the call opened last, whatever it names.
FindLatest(index, id) ==
  IF index # 0 THEN FirstWith(LAMBDA b : b.index = index) ELSE Len(tools.calls)

\* The call a piece belongs to, 0 if it opens one.
Find(index, id) ==
  IF index # 0 THEN FirstWith(LAMBDA b : b.index = index)
  ELSE IF id # 0 THEN FirstWith(LAMBDA b : b.id = id)
  ELSE Len(tools.calls)

Frame(buffer, from, stop) ==
  [id |-> buffer.id, pieces |-> SubSeq(buffer.pieces, from + 1, Len(buffer.pieces)), stop |-> stop]

SentAll(buffer) == [buffer EXCEPT !.announced = TRUE, !.sent = Len(buffer.pieces)]

\* Mutant: the streaming call gives way to the next at once.
GivesWay(buffer) == TRUE

\* A later call waits until the streaming one is whole.
MayEnd(buffer) == WholeJson(buffer)

\* One round of advance: s is the calls, the one streaming, the frames so far and whether
\* the loop goes on.
AdvanceOnce(position, s) ==
  LET waiting == {n \in DOMAIN s.calls :
                    ~s.calls[n].announced /\ s.calls[n].id # 0 /\ s.calls[n].named}
      next == CHOOSE n \in waiting : \A m \in waiting : n <= m
  IN
  CASE s.loop # "on" -> s
    [] s.loop = "on" /\ s.live = position ->
         LET b == s.calls[position] IN
         [s EXCEPT !.loop = "done", !.calls[position] = SentAll(b),
                   !.frames = @ \o (IF b.sent < Len(b.pieces)
                                    THEN <<Frame(b, b.sent, FALSE)>> ELSE <<>>)]
    [] s.loop = "on" /\ s.live \notin {0, position} ->
         IF s.calls[position].announced THEN [s EXCEPT !.loop = "continued"]
         ELSE IF ~MayEnd(s.calls[s.live]) THEN [s EXCEPT !.loop = "done"]
         ELSE [s EXCEPT !.live = 0,
                        !.frames = Append(@, [id |-> s.calls[s.live].id, pieces |-> <<>>,
                                              stop |-> TRUE])]
    [] s.loop = "on" /\ s.live = 0 ->
         IF waiting = {} THEN [s EXCEPT !.loop = "done"]
         ELSE [s EXCEPT !.live = next, !.calls[next] = SentAll(@),
                        !.frames = Append(@, Frame(s.calls[next], 0, FALSE))]

\* Every two rounds announce a call, so these are enough.
Advance(calls, live, position) ==
  FoldLeft(LAMBDA s, n : AdvanceOnce(position, s),
           [calls |-> calls, live |-> live, frames |-> <<>>, loop |-> "on"],
           [n \in 1..(2 * Len(calls) + 2) |-> n])

\* The frames that end the answer's calls: the streaming one ends, those that never
\* streamed go whole.
FinishCalls ==
  FoldLeft(LAMBDA frames, b : IF b.announced THEN frames ELSE Append(frames, Frame(b, 0, TRUE)),
           IF tools.live = 0 THEN <<>>
           ELSE <<[id |-> tools.calls[tools.live].id, pieces |-> <<>>, stop |-> TRUE]>>,
           tools.calls)

----------------------------------------------------------------------------
(* Usage and the bill.                                                     *)

Greater(a, b) == IF a > b THEN a ELSE b

\* Mutant: what a final report restated can still be raised by a later one.
MergeByMax(u, next) ==
  [uncached   |-> IF next.restated THEN next.uncached ELSE Greater(u.uncached, next.uncached),
   cached     |-> IF next.restated THEN next.cached ELSE Greater(u.cached, next.cached),
   completion |-> Greater(u.completion, next.completion),
   final      |-> u.final \/ next.final,
   restated   |-> u.restated \/ next.restated]

\* A restatement of the prompt replaces the counts before it and later ones leave it.
MergeUsage(u, next) ==
  LET prompt == CASE next.restated -> next
                  [] ~next.restated /\ u.restated -> u
                  [] OTHER -> [uncached |-> Greater(u.uncached, next.uncached),
                               cached   |-> Greater(u.cached, next.cached)]
  IN [uncached |-> prompt.uncached, cached |-> prompt.cached,
      completion |-> Greater(u.completion, next.completion),
      final |-> u.final \/ next.final, restated |-> u.restated \/ next.restated]

\* OpenAI's prompt includes what was cached, and its output is final.
OpenAiUsage(n) ==
  [uncached |-> Greater(n[1] - n[2], 0), cached |-> n[2], completion |-> n[3],
   final |-> TRUE, restated |-> FALSE]

\* Anthropic's counts at the start of a message are no last word on its output.
MessageStart(n) ==
  [uncached |-> n[1], cached |-> n[2], completion |-> n[3], final |-> FALSE, restated |-> FALSE]

\* Those at its end are, and a prompt among them replaces the one before.
MessageDelta(n) ==
  IF n[1] + n[2] = 0 THEN [NoTokens EXCEPT !.completion = n[3], !.final = TRUE]
  ELSE [uncached |-> n[1], cached |-> n[2], completion |-> n[3], final |-> TRUE, restated |-> TRUE]

Reported(dialect) ==
  IF dialect = "anthropic" THEN {MessageStart(n) : n \in Counts} \cup {MessageDelta(n) : n \in Counts}
  ELSE {OpenAiUsage(n) : n \in Counts}

ReportsInput(report) == report.uncached > 0 \/ report.cached > 0

\* A final count wins unless it is below half of what was streamed.
BilledOutput(h) ==
  LET streamed == IF h.output THEN Greater(h.units, 1) ELSE 0
      u == h.usage
  IN IF u.final /\ 2 * u.completion >= streamed THEN u.completion
     ELSE Greater(u.completion, streamed)

\* h is what the guard has counted.
ResolveSettlementTokens(h) ==
  IF ~h.input /\ ~h.output /\ h.usage.completion = 0 THEN {}
  ELSE {[uncached |-> IF h.input THEN h.usage.uncached ELSE Greater(EstimatedInput, 1),
         cached |-> h.usage.cached, output |-> BilledOutput(h)]}

----------------------------------------------------------------------------
(* The end.                                                                *)

\* Mutant: an ordinary stop ends an empty turn too.
EndsAnyTurn(reason) == reason # "none"

EndsEmptyTurn(reason) == reason \in {"limit", "filter"}

\* The one way out, with what has been counted by then: what is billed, if anything.
Finish(h, how, completed, emptied) ==
  LET rejected == emptied /\ ~h.input
      billable == h.output \/ completed \/ (emptied /\ h.stop # "none")
  IN end' = [how |-> how, completed |-> completed, emptied |-> emptied,
             bill |-> IF billable /\ ~rejected THEN ResolveSettlementTokens(h) ELSE {}]

----------------------------------------------------------------------------
(* The upstream's lines, as the guard takes their events.                  *)

\* Text, or the model's thinking.
Delta ==
  /\ Open /\ ~upstream.stopped /\ upstream.said < MaxSaid
  /\ upstream' = [upstream EXCEPT !.said = @ + 1]
  /\ heard' = [heard EXCEPT !.output = TRUE, !.units = @ + 1]
  /\ UNCHANGED <<tools, kiro, end>>

\* An empty piece that carries nothing its call lacks tells Kiro nothing.
AddsNothing(position, id, named, pieces) ==
  /\ pieces = <<>>
  /\ IF position = 0 THEN id = 0 /\ ~named
     ELSE /\ id # 0 => id = tools.calls[position].id
          /\ named => tools.calls[position].named

\* A piece of call c arrives, with an index, an identity, a name as its dialect has it.
ToolCallChunk(c, index, id, named, pieces) ==
  LET position == Find(index, id)
      at == IF position = 0 THEN Len(tools.calls) + 1 ELSE position
      old == IF position = 0 THEN [EmptyBuffer EXCEPT !.index = index] ELSE tools.calls[position]
      new == [old EXCEPT !.id = IF id # 0 THEN id ELSE @, !.named = @ \/ named,
                         !.pieces = @ \o pieces]
      opened == IF position = 0 THEN Append(tools.calls, new)
                ELSE [tools.calls EXCEPT ![position] = new]
      s == Advance(opened, tools.live, at)
      counted == [heard EXCEPT !.output = TRUE, !.units = @ + Len(pieces)]
      carried == FoldLeft(LAMBDA n, b : n + Len(b.pieces), 0, opened)
  IN
  /\ upstream' = [upstream EXCEPT !.sent[c] = @ + Len(pieces), !.begun = @ \cup {c}]
  /\ IF AddsNothing(position, id, named, pieces)
     THEN UNCHANGED <<tools, heard, kiro, end>>
     ELSE /\ heard' = counted
          /\ IF \/ position = 0 /\ Len(tools.calls) >= MaxToolCalls
                \/ carried > MaxToolPieces
             THEN Finish(counted, "oversized", FALSE, FALSE) /\ UNCHANGED <<tools, kiro>>
             ELSE /\ tools' = [calls |-> s.calls, live |-> s.live]
                  /\ kiro' = HearsAll(kiro, s.frames)
                  /\ IF s.loop = "continued" THEN Finish(counted, "failed", FALSE, FALSE)
                     ELSE UNCHANGED end

\* The next piece of call c, or an empty one: its first names it, its others as its dialect
\* has it. A relay repeats empty pieces at any time, under the call's name too.
Fragment(c) ==
  /\ Open /\ ~upstream.stopped
  /\ \A d \in ToolUses : d < c => d \in upstream.begun
  /\ \E size \in {0, 1}, again \in BOOLEAN :
       LET first == c \notin upstream.begun
           index == IF upstream.dialect \in {"anthropic", "indexed"} THEN c ELSE 0
           id == IF first \/ again \/ upstream.dialect = "named" THEN c ELSE 0
       IN
       /\ upstream.dialect # "plain" \/ (size = 0 /\ again) \/ \A d \in upstream.begun : d <= c
       /\ upstream.sent[c] + size <= PiecesOf[c]
       /\ ToolCallChunk(c, index, id, first \/ again,
                        IF size = 1 THEN <<<<c, upstream.sent[c] + 1>>>> ELSE <<>>)

Usage(report) ==
  /\ Open /\ upstream.reports < MaxReports
  /\ upstream' = [upstream EXCEPT !.reports = @ + 1,
                                  !.restated = IF report.restated THEN {report} ELSE @]
  /\ heard' = [heard EXCEPT !.frame = TRUE, !.input = @ \/ ReportsInput(report),
                            !.usage = MergeUsage(@, report)]
  /\ UNCHANGED <<tools, kiro, end>>

StopReason(reason) ==
  /\ Open /\ ~upstream.stopped
  /\ upstream' = [upstream EXCEPT !.stopped = TRUE]
  /\ heard' = [heard EXCEPT !.stop = reason]
  /\ UNCHANGED <<tools, kiro, end>>

\* The explicit end. An answer with nothing in it stands only if its reason says so.
Done ==
  /\ Open
  /\ IF ~heard.output
     THEN /\ IF heard.frame /\ EndsEmptyTurn(heard.stop) THEN Finish(heard, "stopped", TRUE, FALSE)
             ELSE Finish(heard, "failed", FALSE, TRUE)
          /\ UNCHANGED kiro
     ELSE /\ kiro' = HearsAll(kiro, FinishCalls)
          /\ Finish(heard, "stopped", TRUE, FALSE)
  /\ UNCHANGED <<upstream, tools, heard>>

\* A line that does not parse: what is no event passes for a sign of life, and so do the
\* first garbled events.
Noise(garbled) ==
  /\ Open /\ upstream.noise < MaxNoise
  /\ upstream' = [upstream EXCEPT !.noise = @ + 1, !.garbled = @ + (IF garbled THEN 1 ELSE 0)]
  /\ IF garbled /\ upstream.garbled >= Tolerated THEN Finish(heard, "failed", FALSE, FALSE)
     ELSE UNCHANGED end
  /\ UNCHANGED <<tools, heard, kiro>>

\* The connection breaks, the bytes end with no explicit end, the upstream reports a
\* failure of its own, or the stream is cut: by its deadline or the gateway's stop.
BreaksOff ==
  /\ Open /\ Finish(heard, "failed", FALSE, FALSE)
  /\ UNCHANGED <<upstream, tools, heard, kiro>>

\* Kiro goes: there is no one to tell.
KiroLeaves ==
  /\ Open /\ Finish(heard, "left", FALSE, FALSE)
  /\ UNCHANGED <<upstream, tools, heard, kiro>>

----------------------------------------------------------------------------

AnswerInit ==
  /\ upstream \in {[dialect |-> d, said |-> 0, sent |-> [c \in ToolUses |-> 0], begun |-> {},
                    stopped |-> FALSE, reports |-> 0, restated |-> {}, noise |-> 0,
                    garbled |-> 0] : d \in Dialects}
  /\ tools = [calls |-> <<>>, live |-> 0]
  /\ heard = [output |-> FALSE, units |-> 0, usage |-> NoTokens,
              frame |-> FALSE, input |-> FALSE, stop |-> "none"]
  /\ kiro = [last |-> 0, calls |-> [c \in {} |-> <<>>], ended |-> {}]
  /\ end = [how |-> "open", completed |-> FALSE, emptied |-> FALSE, bill |-> {}]

AnswerNext ==
  \/ Delta
  \/ \E c \in ToolUses : Fragment(c)
  \/ \E report \in Reported(upstream.dialect) : Usage(report)
  \/ \E reason \in StopReasons : StopReason(reason)
  \/ Done \/ BreaksOff \/ KiroLeaves
  \/ \E garbled \in BOOLEAN : Noise(garbled)

AnswerSpec == AnswerInit /\ [][AnswerNext]_answerVars

----------------------------------------------------------------------------
(* Properties.                                                             *)

PiecesSent(c, n) == [k \in 1..n |-> <<c, k>>]

\* However an upstream interleaves its calls and tells them apart, Kiro puts each together
\* from its own pieces alone, in their order; a call it is told has ended has every piece
\* there is of it; and an answer told as whole has every call, whole and ended.
CallsReachKiroWhole ==
  /\ \A c \in DOMAIN kiro.calls :
       /\ kiro.calls[c] = PiecesSent(c, Len(kiro.calls[c]))
       /\ c \in kiro.ended => Len(kiro.calls[c]) = upstream.sent[c]
  /\ end.how = "stopped" => kiro.ended = upstream.begun

\* A bill has the prompt as the upstream restated it last, whatever it estimated before or
\* reported after; and output no less than half of what was streamed, and no more than was
\* streamed or reported.
BillFollowsUpstream ==
  \A bill \in end.bill :
    /\ \A report \in upstream.restated :
         bill.uncached = report.uncached /\ bill.cached = report.cached
    /\ 2 * bill.output >= heard.units
    /\ bill.output <= Greater(Greater(heard.units, 1), heard.usage.completion)
=============================================================================
