----------------------------- MODULE ToolStream -----------------------------
(***************************************************************************)
(* How the chat endpoint turns generated text into message deltas while it *)
(* is still being generated: the required-tool extractor of the repository *)
(* and, from how it uses them, the reasoning and tool parsers.             *)
(*                                                                         *)
(* Text is a sequence of tokens [c, k, lane]: a class, a place and the     *)
(* choice it was generated for.  Classes: "w" a word, "E" the end of the   *)
(* reasoning, "N" and "A" a tool's name and a piece of its arguments; and  *)
(* for the JSON list of required tools "[" "{" "n" "p" "a" "}" "," "]",    *)
(* "n" being the name entry and "p" the key parameters.                    *)
(*                                                                         *)
(* A delta message is [r, c, tools]: reasoning, content and tool deltas    *)
(* [idx, name, args]; {} stands for None.                                  *)
(***************************************************************************)
EXTENDS Integers, Sequences, FiniteSets, SequencesExt

OfClass(toks, c) == {k \in DOMAIN toks : toks[k].c = c}

Message(r, c, tools) == {[r |-> r, c |-> c, tools |-> tools]}

-----------------------------------------------------------------------------
(* The tool list of tool_choice "required".                                *)

_bracket_level(s) == Cardinality(OfClass(s, "{")) - Cardinality(OfClass(s, "}"))

(* The part of a delta inside the outermost braces, and whether the last   *)
(* brace closed them; a comma outside them ends the scan.                  *)
_filter_delta_text(delta, previous) ==
    LET Scan(acc, t) ==
            LET level == acc.level + (IF t.c = "{" THEN 1 ELSE IF t.c = "}" THEN -1 ELSE 0)
            IN  IF acc.stop THEN acc
                ELSE [level |-> level,
                      zero |-> IF t.c \in {"{", "}"} THEN level = 0 ELSE acc.zero,
                      out |-> IF level # 0 THEN Append(acc.out, t) ELSE acc.out,
                      stop |-> level = 0 /\ t.c = ","]
    IN  FoldLeft(Scan, [level |-> _bracket_level(previous), zero |-> FALSE,
                        out |-> <<>>, stop |-> FALSE], delta)

(* What partial_json_loads makes of the text: where each object of the     *)
(* list starts, and the entries of the last one.  A key counts once its    *)
(* value has begun.                                                        *)
PartialJson(text) ==
    LET opens == {k \in OfClass(text, "{") : _bracket_level(SubSeq(text, 1, k - 1)) = 0}
        last == IF opens = {} THEN <<>>
                ELSE SubSeq(text, CHOOSE k \in opens : \A j \in opens : j <= k, Len(text))
    IN  [count |-> Cardinality(opens),
         name |-> OfClass(last, "n") # {},
         parameters |-> \E k \in OfClass(last, "p") : k < Len(last)]

(* The text after the last "parameters" key.                               *)
Parameters(text) ==
    LET keys == OfClass(text, "p")
    IN  IF keys = {} THEN <<>>
        ELSE SubSeq(text, 1 + CHOOSE k \in keys : \A j \in keys : j <= k, Len(text))

(* One delta of the list: the name of a tool with its first arguments once *)
(* its parameters have begun, further arguments after that.                *)
extract_tool_call_required_streaming(previous, current, delta, named) ==
    LET obj == PartialJson(current)
        filtered == _filter_delta_text(delta, previous)
        Call(name, args) == Message(<<>>, <<>>,
                                <<[idx |-> obj.count, name |-> name, args |-> args]>>)
    IN  IF \/ obj.count = 0
           \/ ~filtered.zero /\ ~(obj.name /\ obj.parameters)
        THEN [msg |-> {}, named |-> IF current = <<>> THEN named ELSE FALSE]
        ELSE IF ~named
        THEN [msg |-> Call(TRUE, _filter_delta_text(Parameters(current), previous).out),
              named |-> TRUE]
        ELSE [msg |-> IF filtered.out = <<>> THEN {} ELSE Call(FALSE, filtered.out),
              named |-> TRUE]

-----------------------------------------------------------------------------
(* External: the reasoning parser.                                         *)

is_reasoning_end(toks) == OfClass(toks, "E") # {}

FirstEnd(toks) == CHOOSE k \in OfClass(toks, "E") : \A j \in OfClass(toks, "E") : k <= j

Reasoning(toks) == IF is_reasoning_end(toks) THEN SubSeq(toks, 1, FirstEnd(toks) - 1) ELSE toks

extract_content_ids(toks) ==
    IF is_reasoning_end(toks) THEN SubSeq(toks, FirstEnd(toks) + 1, Len(toks)) ELSE <<>>

extract_reasoning_streaming(previous, delta) ==
    LET r == IF is_reasoning_end(previous) THEN <<>> ELSE Reasoning(delta)
        c == IF is_reasoning_end(previous) THEN delta ELSE extract_content_ids(delta)
    IN  IF r = <<>> /\ c = <<>> THEN {} ELSE Message(r, c, <<>>)

-----------------------------------------------------------------------------
(* External: the tool parser of tool_choice "auto".  It keeps the calls    *)
(* parsed so far and what it has streamed of each, which may lag behind by *)
(* a piece that could still be part of a closing tag.                      *)

NewParser == [calls |-> <<>>, streamed |-> <<>>]

Feed(calls, t) ==
    IF t.c = "N" THEN Append(calls, <<>>)
    ELSE IF t.c = "A" /\ calls # <<>>
    THEN [calls EXCEPT ![Len(calls)] = Append(@, t)] ELSE calls

ParsedCalls(calls, toks) ==
    LET after[k \in 0 .. Len(toks)] == IF k = 0 THEN calls ELSE Feed(after[k - 1], toks[k])
    IN  after[Len(toks)]

Words(toks) == SelectSeq(toks, LAMBDA t : t.c = "w")

extract_tool_calls_streaming(parser, toks, lag) ==
    LET calls == ParsedCalls(parser.calls, toks)
        before == Len(parser.calls)
        start == IF before > 0 /\ calls[before] # parser.calls[before]
                 THEN before ELSE before + 1
        Shown(k) == SubSeq(calls[k], 1, Len(calls[k]) - lag)
        Told(k) == IF k > before THEN 0 ELSE Len(parser.streamed[k])
        tools == [j \in 1 .. Len(calls) - start + 1 |->
                    LET k == start + j - 1
                    IN  [idx |-> k, name |-> k > before,
                         args |-> SubSeq(Shown(k), Told(k) + 1, Len(Shown(k)))]]
    IN  [msg |-> IF Words(toks) = <<>> /\ tools = <<>> THEN {}
                 ELSE Message(<<>>, Words(toks), tools),
         parser |-> [calls |-> calls, streamed |-> [k \in DOMAIN calls |-> Shown(k)]]]

(* External: the arguments of a complete list of required tools, by call.  *)
RequiredCalls(text) ==
    LET keys == OfClass(text, "p")
        Upto(k) == {j \in (k + 1) .. Len(text) : _bracket_level(SubSeq(text, 1, j)) = 0}
        Close(k) == CHOOSE j \in Upto(k) : \A h \in Upto(k) : j <= h
        Args(k) == SubSeq(text, k + 1, Close(k) - 1)
        Key(c) == CHOOSE k \in keys : Cardinality({j \in keys : j < k}) = c - 1
    IN  [c \in 1 .. Cardinality(keys) |-> Args(Key(c))]
=============================================================================
