-------------------------------- MODULE Prompts --------------------------------
(***************************************************************************)
(* What a conversation's steps are sent upstream as. Kiro resends the      *)
(* whole conversation with every step: its history is translated again     *)
(* (translate_kiro_to_chat_request) with tool calls and results paired     *)
(* (repair_orphan_tool_pairs), images shrunk while there is time           *)
(* (prepare_images) and attachments an upstream refused replaced by notes, *)
(* and is put into a provider's format (translate_request).                *)
(*                                                                         *)
(* Kiro and the upstream are taken from how the code speaks of them: Kiro  *)
(* keeps a message that was refused or drops it; a call may be answered,   *)
(* left unanswered, or answered twice.                                     *)
(***************************************************************************)
EXTENDS Integers, SequencesExt

CONSTANTS
  Images, Large, Unreadable,   \* large ones must be shrunk; unreadable ones are found out then
  Files, Encrypted, Rejected,  \* PDFs; those with a password, those some upstream refuses
  UserMessages,                \* [text, images, pdfs, results]: what Kiro may send
  Replies,                     \* sequences of the tool calls an answer makes
  MaxImages,                   \* content_guardrail::max_images_per_request
  KeptFor, RefusalMemory,      \* BUSY_KEPT_FOR, REFUSAL_MEMORY_SECS
  LastMinute, MaxMessages, MaxSteps  \* bounds

ASSUME PromptsAssumption ==
  /\ Large \subseteq Images /\ Unreadable \subseteq Images
  /\ Encrypted \subseteq Files /\ Rejected \subseteq Files
  /\ MaxImages \in Nat /\ KeptFor \in Nat /\ RefusalMemory \in Nat

VARIABLES
  talk,      \* Kiro's history of the conversation
  busy,      \* busy_places: images left out as busy, by place, until when
  decoded,   \* the shrink cache: images decoded before, or found unreadable
  refused,   \* REFUSED: the files an upstream refused, until when
  sent,      \* ghost: the last step that was sent
  refusals,  \* ghost: how often an upstream refused an attachment
  minute, steps

promptVars == <<talk, busy, decoded, refused, sent, refusals, minute, steps>>

Nobody == "none"

Assistant(calls) ==
  [who |-> "assistant", text |-> calls = <<>>, images |-> <<>>, pdfs |-> <<>>,
   results |-> <<>>, calls |-> calls]

User(m) ==
  [who |-> "user", text |-> m.text, images |-> m.images, pdfs |-> m.pdfs,
   results |-> m.results, calls |-> <<>>]

Remembered(memory, key) == key \in DOMAIN memory /\ memory[key] > minute

Remember(memory, keys, until) ==
  [key \in DOMAIN memory \cup keys |-> IF key \in keys THEN until ELSE memory[key]]

----------------------------------------------------------------------------
(* Images.                                                                 *)

\* Where images sit: <<message, place in it, image>>, oldest first. The current message has
\* the place the history gives it next.
PlacesOf(messages) ==
  FlattenSeq([n \in DOMAIN messages |->
                [k \in DOMAIN messages[n].images |-> <<n, k, messages[n].images[k]>>]])

\* Mutant: one image more becomes a note with every image past the most.
LeftOneByOne(total) == IF total <= MaxImages THEN 0 ELSE total - MaxImages

\* Past the most a request carries, the oldest half of them become notes at once.
ImagesLeftAsNotes(total) ==
  LET block == IF MaxImages \div 2 > 1 THEN MaxImages \div 2 ELSE 1
      over == total - MaxImages
  IN IF over <= 0 THEN 0 ELSE ((over + block - 1) \div block) * block

\* Mutant: an image left out as busy is tried again on the next step.
StillBusyNever(place) == FALSE

StillBusy(place) == Remembered(busy, place)

\* The images to shrink, newest first, of those shown.
ToShrink(places) ==
  Reverse(SelectSeq(SubSeq(places, ImagesLeftAsNotes(Len(places)) + 1, Len(places)),
                    LAMBDA place : place[3] \in Large /\ ~StillBusy(place)))

Shrunk(image) == IF image \in Unreadable THEN "unreadable" ELSE "resized"

\* How each image reaches the model when the first `inTime` are shrunk before the budget is
\* spent: the ones after them only if they were decoded before.
Prepared(places, inTime) ==
  LET todo == ToShrink(places)
      done == decoded \cup {todo[n][3] : n \in 1..inTime}
      note == {places[n] : n \in 1..ImagesLeftAsNotes(Len(places))}
  IN [place \in Range(places) |->
        CASE place \in note -> "older"
          [] place \notin note /\ place[3] \notin Large ->
               IF place[3] \in Unreadable THEN "unreadable" ELSE "original"
          [] place \in Range(todo) /\ place[3] \in done -> Shrunk(place[3])
          [] OTHER -> "busy"]

----------------------------------------------------------------------------
(* Attachments.                                                            *)

\* Why Kiro is told at once that a file of the current message cannot be sent.
Refusable(m) == \E f \in Range(m.pdfs) : f \in Encrypted \/ Remembered(refused, f)

\* A file an upstream refused, or that none reads, is a note.
ContentPart(f, reads) ==
  <<IF ~reads \/ f \in Encrypted \/ Remembered(refused, f) THEN "note" ELSE "file", f>>

PdfsOf(messages) == UNION {Range(messages[n].pdfs) : n \in DOMAIN messages}

\* Mutant: only the current message's files are to blame.
BlamedCurrent(messages) == Range(Last(messages).pdfs)

\* The files an upstream's refusal is taken to be about: the new ones, if there are any.
Blamed(messages) ==
  IF Last(messages).pdfs # <<>> THEN Range(Last(messages).pdfs) ELSE PdfsOf(messages)

----------------------------------------------------------------------------
(* Translation.                                                            *)

Said(role, parts, id, calls) == [role |-> role, parts |-> parts, id |-> id, calls |-> calls]

\* A user's content: attachments, text, images.
FormatUserContent(m, n, prepared, reads) ==
  [k \in DOMAIN m.pdfs |-> ContentPart(m.pdfs[k], reads)]
  \o (IF m.text THEN <<<<"text", n>>>> ELSE <<>>)
  \o [k \in DOMAIN m.images |-> <<prepared[<<n, k, m.images[k]>>], m.images[k]>>]

\* One message of the conversation: results first; an earlier one without content has none.
Translated(messages, n, prepared, reads) ==
  LET m == messages[n]
      content == FormatUserContent(m, n, prepared, reads)
  IN IF m.who = "assistant"
     THEN <<Said("assistant", IF m.text THEN <<<<"text", n>>>> ELSE <<>>, Nobody, m.calls)>>
     ELSE [k \in DOMAIN m.results |-> Said("tool", <<<<"result", n>>>>, m.results[k], <<>>)]
          \o (IF content # <<>> \/ n = Len(messages)
              THEN <<Said("user", content, Nobody, <<>>)>> ELSE <<>>)

\* A result for each call that has none.
Omitted(pending) ==
  [n \in DOMAIN pending |-> Said("tool", <<<<"omitted", pending[n]>>>>, pending[n], <<>>)]

\* Mutant: a result for a call of any turn stands.
RepairOfAnyTurn(s, m) ==
  IF m.role = "assistant"
  THEN [pending |-> s.pending \o m.calls, out |-> Append(s.out, m)]
  ELSE [pending |-> IF m.role = "tool" THEN SelectSeq(s.pending, LAMBDA c : c # m.id) ELSE s.pending,
        out |-> Append(s.out, m)]

\* One message of repair_orphan_tool_pairs: calls the next turn leaves unanswered are
\* answered as omitted, and a result no pending call asked for becomes the user's words.
RepairOne(s, m) ==
  CASE m.role = "assistant" ->
         [pending |-> m.calls, out |-> Append(s.out \o Omitted(s.pending), m)]
    [] m.role = "tool" /\ m.id \in Range(s.pending) ->
         [pending |-> RemoveFirst(s.pending, m.id), out |-> Append(s.out, m)]
    [] m.role = "tool" /\ m.id \notin Range(s.pending) ->
         [pending |-> s.pending, out |-> Append(s.out, [m EXCEPT !.role = "user", !.id = Nobody])]
    [] m.role = "user" ->
         [pending |-> <<>>, out |-> Append(s.out \o Omitted(s.pending), m)]

RepairOrphanToolPairs(messages) ==
  LET s == FoldLeft(RepairOne, [pending |-> <<>>, out |-> <<>>], messages)
  IN s.out \o Omitted(s.pending)

TranslateKiroToChatRequest(messages, prepared, reads) ==
  RepairOrphanToolPairs(
    FlattenSeq([n \in DOMAIN messages |-> Translated(messages, n, prepared, reads)]))

----------------------------------------------------------------------------
(* The providers' formats.                                                 *)

\* Anthropic: two roles, of blocks; the tool calls of a turn are blocks of it, results are
\* the user's.
Blocks(m) ==
  CASE m.role = "tool" -> <<<<"tool_result", m.id>>>>
    [] m.role = "user" -> m.parts
    [] m.role = "assistant" -> m.parts \o [n \in DOMAIN m.calls |-> <<"tool_use", m.calls[n]>>]

Turn(role, blocks) == [role |-> role, blocks |-> blocks]

Continue == Turn("user", <<<<"continue", 0>>>>)

\* Turns of one role in a row are one.
MergeTurn(turns, turn) ==
  IF turns # <<>> /\ Last(turns).role = turn.role
  THEN [turns EXCEPT ![Len(turns)].blocks = @ \o turn.blocks]
  ELSE Append(turns, turn)

\* Mutant: a request may end on the model's turn.
EndsAsItMay(turns) == turns

\* A prefill is refused.
EndsOnUser(turns) ==
  IF Last(turns).role = "assistant" THEN Append(turns, Continue) ELSE turns

AnthropicMessages(chat) ==
  LET turns == [n \in DOMAIN chat |->
                  Turn(IF chat[n].role = "assistant" THEN "assistant" ELSE "user", Blocks(chat[n]))]
      merged == FoldLeft(MergeTurn, <<>>, SelectSeq(turns, LAMBDA t : t.blocks # <<>>))
  IN CASE merged = <<>> -> <<Turn("user", <<<<"text", 0>>>>)>>
       [] merged # <<>> /\ merged[1].role = "assistant" -> EndsOnUser(<<Continue>> \o merged)
       [] OTHER -> EndsOnUser(merged)

\* OpenAI: a message as it is, without the user's empty one after tool results.
OpenAiMessages(chat) ==
  LET kept == SelectSeq([n \in DOMAIN chat |-> n],
                        LAMBDA n : ~(/\ chat[n].role = "user" /\ chat[n].parts = <<>>
                                     /\ n > 1 /\ chat[n - 1].role = "tool"))
  IN [n \in DOMAIN kept |-> chat[kept[n]]]

----------------------------------------------------------------------------
(* Steps.                                                                  *)

Keeps(messages) == talk' \in {talk, messages}

\* Kiro is told at once that a file cannot be sent.
RefusedAtOnce(m) ==
  /\ steps < MaxSteps /\ Len(talk) < MaxMessages
  /\ Refusable(m)
  /\ Keeps(Append(talk, User(m)))
  /\ steps' = steps + 1
  /\ UNCHANGED <<busy, decoded, refused, sent, refusals, minute>>

\* The images of a step are prepared, whatever becomes of it.
PrepareImages(places, prepared, inTime) ==
  /\ busy' = Remember(busy, {place \in Range(places) : prepared[place] = "busy"}, minute + KeptFor)
  /\ decoded' = decoded \cup {ToShrink(places)[n][3] : n \in 1..inTime}

\* A step is sent and answered, or its answer is lost.
Answered(messages) ==
  /\ \/ Keeps(messages)
     \/ \E calls \in Replies : talk' = Append(messages, Assistant(calls))
  /\ UNCHANGED <<refused, refusals>>

\* The upstream refuses a file: it is remembered.
DocumentRefused(messages, chat) ==
  /\ \E n \in DOMAIN chat : \E part \in Range(chat[n].parts) :
       part[1] = "file" /\ part[2] \in Rejected
  /\ refused' = Remember(refused, Blamed(messages), minute + RefusalMemory)
  /\ refusals' = refusals + 1
  /\ Keeps(messages)

\* `reads`: an upstream that reads PDFs may take the step.
SendStep(m) ==
  /\ steps < MaxSteps /\ Len(talk) < MaxMessages
  /\ ~Refusable(m)
  /\ LET messages == Append(talk, User(m))
         places == PlacesOf(messages)
     IN \E reads \in BOOLEAN, inTime \in 0..Len(ToShrink(places)) :
          LET prepared == Prepared(places, inTime)
              chat == TranslateKiroToChatRequest(messages, prepared, reads)
          IN /\ PrepareImages(places, prepared, inTime)
             /\ IF ~reads /\ m.pdfs # <<>>
                THEN Keeps(messages) /\ UNCHANGED <<refused, refusals, sent>>
                ELSE /\ sent' = [chat |-> chat, images |-> prepared, at |-> minute]
                     /\ Answered(messages) \/ DocumentRefused(messages, chat)
  /\ steps' = steps + 1
  /\ UNCHANGED minute

\* A decode that outlived its step, or another conversation's, ends.
DecodeEnds(image) ==
  /\ image \in Large \ decoded
  /\ decoded' = decoded \cup {image}
  /\ UNCHANGED <<talk, busy, refused, sent, refusals, minute, steps>>

\* The cache is full of other images.
CacheEvicts(image) ==
  /\ image \in decoded
  /\ decoded' = decoded \ {image}
  /\ UNCHANGED <<talk, busy, refused, sent, refusals, minute, steps>>

\* Other conversations' images left out as busy fill BUSY_PLACES: the place that would be
\* kept the shortest goes.
BusyEvicts(place) ==
  /\ place \in DOMAIN busy /\ \A other \in DOMAIN busy : busy[place] <= busy[other]
  /\ busy' = [p \in DOMAIN busy \ {place} |-> busy[p]]
  /\ UNCHANGED <<talk, decoded, refused, sent, refusals, minute, steps>>

PromptsTick ==
  /\ minute < LastMinute /\ minute' = minute + 1
  /\ UNCHANGED <<talk, busy, decoded, refused, sent, refusals, steps>>

\* All but Kiro's history is memory.
PromptsRestart ==
  /\ sent.chat # <<>>
  /\ busy' = [p \in {} |-> 0] /\ refused' = [f \in {} |-> 0] /\ decoded' = {}
  /\ sent' = [chat |-> <<>>, images |-> [p \in {} |-> ""], at |-> 0] /\ refusals' = 0
  /\ UNCHANGED <<talk, minute, steps>>

PromptsInit ==
  /\ talk = <<>> /\ decoded = {} /\ refusals = 0 /\ minute = 0 /\ steps = 0
  /\ busy = [p \in {} |-> 0] /\ refused = [f \in {} |-> 0]
  /\ sent = [chat |-> <<>>, images |-> [p \in {} |-> ""], at |-> 0]

PromptsNext ==
  \/ \E m \in UserMessages : RefusedAtOnce(m) \/ SendStep(m)
  \/ \E image \in Large : DecodeEnds(image) \/ CacheEvicts(image)
  \/ \E place \in DOMAIN busy : BusyEvicts(place)
  \/ PromptsTick \/ PromptsRestart

----------------------------------------------------------------------------
(* Properties.                                                             *)

Ids(blocks, kind) ==
  LET those == SelectSeq(blocks, LAMBDA b : b[1] = kind)
  IN [n \in DOMAIN those |-> those[n][2]]

SameBag(s, t) ==
  \A x \in Range(s) \cup Range(t) :
    Len(SelectSeq(s, LAMBDA y : y = x)) = Len(SelectSeq(t, LAMBDA y : y = x))

\* The results between the nth message and the model's next.
ResultsAfter(chat, n) ==
  LET next == {k \in n + 1..Len(chat) : chat[k].role = "assistant"}
      until == IF next = {} THEN Len(chat) ELSE Min(next) - 1
      those == SelectSeq(SubSeq(chat, n + 1, until), LAMBDA m : m.role = "tool")
  IN [k \in DOMAIN those |-> those[k].id]

\* Whatever a conversation has become (calls unanswered or answered twice, messages without
\* an answer, messages of nothing that could be sent), an upstream is sent a conversation:
\* every turn's calls are answered before the model's next one, each once, and no others;
\* to Anthropic, user and model take turns, the user first and last, and the answers are in
\* the turn that follows.
TurnsPairUp ==
  sent.chat # <<>> =>
    LET turns == AnthropicMessages(sent.chat)
        messages == OpenAiMessages(sent.chat)
    IN /\ turns[1].role = "user" /\ Last(turns).role = "user"
       /\ Ids(turns[1].blocks, "tool_result") = <<>>
       /\ \A n \in 2..Len(turns) :
            /\ turns[n].role # turns[n - 1].role
            /\ SameBag(Ids(turns[n].blocks, "tool_result"), Ids(turns[n - 1].blocks, "tool_use"))
       /\ ResultsAfter(messages, 0) = <<>>
       /\ \A n \in DOMAIN messages :
            messages[n].role = "assistant" => SameBag(messages[n].calls, ResultsAfter(messages, n))

\* While a conversation goes on, its steps agree about its images, so that what the upstream
\* cached of the last step is read again: one left out as busy stays out although it could
\* be shown by now (unless other conversations' places crowded it out of the memory), one
\* that was shown is shown as long as its shrinking is cached (and no step between that was
\* not sent found otherwise), and the oldest are left out half of the most at a time.
StepsAgree ==
  [][(DOMAIN sent.images \subseteq DOMAIN sent'.images /\ minute - sent.at < KeptFor) =>
     \A place \in DOMAIN sent.images :
       \/ sent.images[place] = sent'.images[place]
       \/ sent.images[place] = "busy" /\ place \notin DOMAIN busy
       \/ /\ sent.images[place] \in {"resized", "unreadable"}
          /\ place[3] \notin decoded \/ place \in DOMAIN busy
       \/ /\ sent'.images[place] = "older"
          /\ LET Older(images) == {p \in DOMAIN images : images[p] = "older"}
             IN Cardinality(Older(sent'.images) \ Older(sent.images)) >= MaxImages \div 2
    ]_promptVars

\* A file an upstream refuses does not end its conversation: every refusal, of a new file
\* or of one in the history, leaves one more file that is not sent again, so that there are
\* no more refusals than files as long as they are remembered.
RefusalsEnd == refusals <= Cardinality(DOMAIN refused)
=============================================================================
