------------------------ MODULE ConversationHistory ------------------------
(***************************************************************************)
(* The transcript of a session and its compaction: the messages, the       *)
(* History that ConvertIntoHistory cuts them into, the summarizer that     *)
(* drops its oldest turns, and EnforceBudget around them.                  *)
(*                                                                         *)
(* A message is its role, a text told apart by kind, the ids of the tool   *)
(* calls an assistant makes, and the call a tool's result is for.          *)
(***************************************************************************)
EXTENDS Naturals, Sequences, SequencesExt

CONSTANT KeepRecent     \* turns the summarizer leaves alone

ASSUME KeepRecentAssumption == KeepRecent \in Nat

Message(role, text) == [role |-> role, text |-> text, calls |-> <<>>, id |-> ""]

System == Message("system", "prompt")
Summary == Message("system", "summary")
UserSays(text) == Message("user", text)
AssistantSays(text) == Message("assistant", text)
AssistantCalls(ids) == [Message("assistant", "") EXCEPT !.calls = ids]
ToolResult(id, text) == [Message("tool", text) EXCEPT !.id = id]

(***************************************************************************)
(* ConvertIntoHistory                                                      *)
(***************************************************************************)
\* pending is a slice: a turn's Input keeps its array, and pending[:0] goes on
\* writing to it.  Array 0 is nil.
Slice(array, length) == [array |-> array, length |-> length]

Converting == [skip |-> FALSE, turnseen |-> FALSE, bad |-> FALSE, prefix |-> <<>>,
               turns |-> <<>>, pending |-> Slice(0, 0), arrays |-> <<>>]

Elements(c, slice) ==
    IF slice.array = 0 THEN <<>> ELSE SubSeq(c.arrays[slice.array], 1, slice.length)

\* append doubles the capacity and copies, or overwrites what the array holds.
Append1(c, message) ==
    LET p == c.pending
        cells == IF p.array = 0 THEN <<>> ELSE c.arrays[p.array]
        grown == [n \in 1..(IF p.length = 0 THEN 1 ELSE 2 * p.length) |->
                     IF n <= p.length THEN cells[n] ELSE message]
    IN  IF p.length < Len(cells)
        THEN [c EXCEPT !.arrays[p.array][p.length + 1] = message, !.pending.length = @ + 1]
        ELSE [c EXCEPT !.arrays = Append(@, grown),
                       !.pending = Slice(Len(c.arrays) + 1, p.length + 1)]

\* One round of the loop.  The cases of system and user advance the index
\* themselves, so that the next message is passed over; that of assistant looks
\* for the results of its calls at its own index, and finds none.
Consume(c, message) ==
    IF c.bad THEN c
    ELSE IF c.skip THEN [c EXCEPT !.skip = FALSE]
    ELSE
    CASE message.role = "system" /\ c.turnseen /\ c.pending.length = 0 ->
            [c EXCEPT !.prefix = Append(@, message), !.skip = TRUE]
      [] message.role \in {"system", "user"} /\ ~(message.role = "system" /\ c.turnseen
                                                   /\ c.pending.length = 0) ->
            [Append1(c, message) EXCEPT !.skip = TRUE]
      [] message.role = "assistant" /\ message.calls = <<>> ->
            [c EXCEPT !.turnseen = TRUE, !.pending.length = 0,
                      !.turns = Append(@, [input |-> c.pending, assistant |-> message])]
      [] OTHER -> [c EXCEPT !.bad = TRUE]

\* History: ok is FALSE for an error.
ConvertIntoHistory(messages) ==
    LET c == FoldLeft(Consume, Converting, messages)
    IN  [ok |-> ~c.bad, prefix |-> c.prefix, pending |-> Elements(c, c.pending),
         turns |-> [n \in DOMAIN c.turns |->
                       Append(Elements(c, c.turns[n].input), c.turns[n].assistant)]]

Messages(history) == history.prefix \o FlattenSeq(history.turns) \o history.pending

(***************************************************************************)
(* EnforceBudget                                                           *)
(***************************************************************************)
\* LLMSummarizer.Compact: the oldest turns become a message at the end of Prefix.
Compactable(history) == Len(history.turns) > KeepRecent

Compacted(history) ==
    [history EXCEPT !.prefix = Append(@, Summary),
                    !.turns = SubSeq(@, Len(@) - KeepRecent + 1, Len(@))]

Failed == [ok |-> FALSE, messages |-> <<>>]

\* What it may return for messages that are over the budget: counting tokens is
\* left open, and so is whether the summarizer's model answers.
OverBudget(messages) ==
    LET history == ConvertIntoHistory(messages)
    IN  {Failed} \union
        IF history.ok /\ Compactable(history)
        THEN {[ok |-> TRUE, messages |-> Messages(Compacted(history))]} ELSE {}

\* What it returns.
EnforceBudget(messages) == {[ok |-> TRUE, messages |-> messages]} \union OverBudget(messages)

=============================================================================
