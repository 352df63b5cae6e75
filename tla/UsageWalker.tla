---------------------------- MODULE UsageWalker ----------------------------
(***************************************************************************)
(* UsageWalker (usage_tally.py): the relay feeds it the bytes of a chat    *)
(* response as they pass, and it keeps the last valid "usage" object found *)
(* at the top level of a JSON document of the stream.  It is a hand-       *)
(* written scanner with ten flags and buffers, not a parser.               *)
(*                                                                         *)
(* The scanner is checked against the grammar: a producer writes well-     *)
(* formed JSON documents (objects, arrays, nesting, several documents one  *)
(* after the other, as in an event stream) and keeps what a real parser    *)
(* would report; the scanner only sees the lexemes, one at a time.  A      *)
(* lexeme is a punctuation mark, a quote, a backslash, a run of plain      *)
(* characters of a string, a null or another scalar.                       *)
(*                                                                         *)
(* The scanner compares names as they are written: a member whose name     *)
(* spells usage with an escape is usage to a JSON parser and passes the    *)
(* scanner by.  The reference passes it by as well.                        *)
(***************************************************************************)
EXTENDS Naturals, Sequences, SequencesExt

CONSTANTS
  MaxDepth,   \* nesting the producer writes
  DepthMax,   \* PARSER_DEPTH_MAX
  BufferMax,  \* USAGE_OBJECT_MAX_BYTES, in lexemes
  KeyMax,     \* KEY_MAX_BYTES, in lexemes
  Tokens,     \* token counts a valid usage object may carry
  None

VARIABLES
  w,     \* the walker's fields
  open,  \* the producer's open containers, outermost first
  ref    \* what a parser reports of the documents so far

vars == <<w, open, ref>>

\* Lexemes.
Usage == [text |-> "usage"]     \* in a string: usage; after a backslash, \u0075sage
Other == [text |-> "other"]     \* in a string: anything else
Null  == [lit |-> "null"]
Num   == [lit |-> "scalar"]     \* a number, true or false
Pair(v) == [pair |-> v]         \* "prompt_tokens":v,"completion_tokens":v
Mark(c) == [mark |-> c]         \* { } [ ] , : quote escape

Is(x, c) == "mark" \in DOMAIN x /\ x.mark = c

Fresh ==
  [last |-> None, bad |-> FALSE, disabled |-> FALSE, depth |-> 0, stack |-> <<>>,
   inString |-> FALSE, escaped |-> FALSE, capturingKey |-> FALSE, keyBuffer |-> <<>>,
   expectingKey |-> FALSE, key |-> None, expectingValue |-> FALSE,
   capturing |-> FALSE, start |-> 0, buffer |-> <<>>]

Disabled(s) == [Fresh EXCEPT !.last = s.last, !.bad = TRUE, !.disabled = TRUE, !.start = s.start]

-----------------------------------------------------------------------------
Top(s, kind) == s.stack # <<>> /\ Last(s.stack) = kind

\* Mutant: a usage key is honoured at any depth.
AtTopLevel_Any(s) == s.key = <<Usage>>

AtTopLevel(s) == s.key = <<Usage>> /\ s.depth = 1

\* json.loads, as far as it matters: what is in a string is no structure, and a pair of
\* token members counts when it belongs to the object itself.
Loads(a, x) ==
  IF a.inString
  THEN [a EXCEPT !.inString = a.escaped \/ ~Is(x, "quote"), !.escaped = ~a.escaped /\ Is(x, "escape")]
  ELSE [a EXCEPT !.inString = Is(x, "quote"),
                 !.depth = IF Is(x, "{") \/ Is(x, "[") THEN @ + 1
                           ELSE IF Is(x, "}") \/ Is(x, "]") THEN @ - 1 ELSE @,
                 !.found = IF "pair" \in DOMAIN x /\ a.depth = 1 THEN x.pair ELSE @]

\* _process_usage_buffer: the two members and their range.
Process(s) ==
  LET found == FoldLeft(Loads, [inString |-> FALSE, escaped |-> FALSE, depth |-> 0, found |-> None],
                        s.buffer).found
  IN IF found \notin Tokens
     THEN [s EXCEPT !.bad = TRUE, !.buffer = <<>>]
     ELSE [s EXCEPT !.last = found, !.buffer = <<>>]

\* _append_key
AppendKey(s, x) ==
  IF ~s.capturingKey THEN s
  ELSE IF Len(s.keyBuffer) >= KeyMax THEN Disabled(s)
  ELSE [s EXCEPT !.keyBuffer = Append(@, x)]

\* Mutant: a backslash does not hide the quote that follows it.
InString_NoEscapes(s, x) ==
  IF Is(x, "quote")
  THEN [s EXCEPT !.inString = FALSE, !.capturingKey = FALSE, !.keyBuffer = <<>>,
                 !.key = IF s.capturingKey THEN s.keyBuffer ELSE @]
  ELSE AppendKey(s, x)

\* A byte of a string: it ends at the first quote that is not escaped, and a key is what
\* was written between the quotes, backslashes included.
InString(s, x) ==
  IF s.escaped THEN AppendKey([s EXCEPT !.escaped = FALSE], x)
  ELSE IF Is(x, "escape") THEN AppendKey([s EXCEPT !.escaped = TRUE], x)
  ELSE IF Is(x, "quote")
  THEN [s EXCEPT !.inString = FALSE, !.capturingKey = FALSE, !.keyBuffer = <<>>,
                 !.key = IF s.capturingKey THEN s.keyBuffer ELSE @]
  ELSE AppendKey(s, x)

\* The quote that opens a string: of a key where one is expected, else it may be that
\* of a value.
OnQuote(s) ==
  LET t == [s EXCEPT !.inString = TRUE, !.escaped = FALSE]
  IN IF s.expectingKey /\ Top(s, "obj")
     THEN [t EXCEPT !.capturingKey = TRUE, !.expectingKey = FALSE, !.keyBuffer = <<>>]
     ELSE IF s.expectingValue
     THEN [t EXCEPT !.bad = @ \/ AtTopLevel(s), !.expectingValue = FALSE, !.key = None]
     ELSE t

\* The first byte of a value that is no string.
OnValue(s, x) ==
  IF ~s.expectingValue THEN s
  ELSE LET t == [s EXCEPT !.expectingValue = FALSE, !.key = None]
       IN IF ~AtTopLevel(s) \/ x = Null THEN t
          ELSE IF Is(x, "{")
          THEN [t EXCEPT !.capturing = TRUE, !.start = s.depth + 1, !.buffer = <<x>>]
          ELSE [t EXCEPT !.bad = TRUE]

\* _push
Push(s, kind) ==
  IF s.depth >= DepthMax \/ Len(s.stack) >= DepthMax THEN Disabled(s)
  ELSE [s EXCEPT !.stack = Append(@, kind), !.depth = @ + 1, !.expectingValue = FALSE]

Pop(s, kind) ==
  LET t == IF s.depth = 0 THEN s
           ELSE [s EXCEPT !.stack = IF Top(s, kind) THEN Front(@) ELSE @, !.depth = @ - 1]
      u == IF kind = "obj" /\ s.depth > 0 /\ s.capturing /\ t.depth = s.start - 1
           THEN Process([t EXCEPT !.capturing = FALSE]) ELSE t
  IN [u EXCEPT !.expectingKey = FALSE, !.expectingValue = FALSE]

OnMark(s, x) ==
  CASE Is(x, "{") -> Push([s EXCEPT !.expectingKey = @ \/ s.depth = 0 \/ Top(s, "obj")], "obj")
    [] Is(x, "[") -> Push(s, "arr")
    [] Is(x, "}") -> Pop(s, "obj")
    [] Is(x, "]") -> Pop(s, "arr")
    [] Is(x, ",") -> [s EXCEPT !.expectingKey = @ \/ Top(s, "obj"), !.expectingValue = FALSE]
    [] Is(x, ":") -> [s EXCEPT !.expectingValue = @ \/ Top(s, "obj")]
    [] OTHER      -> s

\* A pair of members leaves the flags as two scalar members do.
OnPair(s) == [s EXCEPT !.expectingKey = FALSE, !.expectingValue = FALSE, !.key = None]

\* One lexeme of _feed.
Feed(s, x) ==
  IF s.disabled THEN s
  ELSE IF s.capturing /\ Len(s.buffer) >= BufferMax THEN Disabled(s)
  ELSE LET t == IF s.capturing THEN [s EXCEPT !.buffer = Append(@, x)] ELSE s
       IN IF t.inString THEN InString(t, x)
          ELSE IF Is(x, "quote") THEN OnQuote(t)
          ELSE IF "pair" \in DOMAIN x THEN OnPair(t)
          ELSE OnMark(OnValue(t, x), x)

\* feed(data): the chunks are cut anywhere.
FeedAll(s, xs) == FoldLeft(Feed, s, xs)

-----------------------------------------------------------------------------
\* The producer.  An open container knows its kind, whether it is the usage
\* object of its document, whether it has an element yet, and the pair a usage
\* object holds.
Frame(kind, usage) == [kind |-> kind, usage |-> usage, some |-> FALSE, pair |-> None]

\* A string between its quotes.  The names: usage, usage spelled with an escape, another
\* one that holds an escaped quote and a brace, and one the walker has no room for.
Quoted(xs) == <<Mark("quote")>> \o xs \o <<Mark("quote")>>

Literal == Quoted(<<Usage>>)
Awkward == Quoted(<<Other, Mark("escape"), Mark("quote"), Mark("{")>>)
Names == {Literal, Awkward, Quoted(<<Mark("escape"), Usage>>), Quoted([i \in 1..KeyMax + 1 |-> Other])}

Comma == IF open # <<>> /\ Last(open).some THEN <<Mark(",")>> ELSE <<>>

\* What precedes a value here: nothing in an array or between documents, a key
\* and a colon in an object.
Leads ==
  IF open = <<>> \/ Last(open).kind = "arr" THEN {<<>>}
  ELSE {n \o <<Mark(":")>> : n \in Names}

IsUsage(p) == Len(open) = 1 /\ p = Literal \o <<Mark(":")>>

Seen == IF open = <<>> THEN open ELSE [open EXCEPT ![Len(open)].some = TRUE]

Write(xs) == w' = FeedAll(w, xs)

Init == w = Fresh /\ open = <<>> /\ ref = [last |-> None, bad |-> FALSE]

\* A scalar, a null or a string.
WriteScalar ==
  /\ open # <<>>
  /\ \E p \in Leads, v \in {<<Null>>, <<Num>>, Literal, Awkward} :
       /\ Write(Comma \o p \o v)
       /\ open' = Seen
       /\ ref' = [ref EXCEPT !.bad = @ \/ (IsUsage(p) /\ v # <<Null>>)]

\* An object or an array opens.
WriteOpen ==
  /\ Len(open) < MaxDepth
  /\ \E p \in Leads, kind \in {"obj", "arr"} :
       /\ Write(Comma \o p \o <<Mark(IF kind = "obj" THEN "{" ELSE "[")>>)
       /\ open' = Append(Seen, Frame(kind, IsUsage(p) /\ kind = "obj"))
       /\ ref' = [ref EXCEPT !.bad = @ \/ (IsUsage(p) /\ kind = "arr")]

\* The token members, valid or out of range, in any object.
WritePair ==
  /\ open # <<>> /\ Last(open).kind = "obj"
  /\ \E v \in Tokens \cup {None} :
       /\ Write(Comma \o <<Pair(v)>>)
       /\ open' = [Seen EXCEPT ![Len(open)].pair = v]
       /\ UNCHANGED ref

WriteClose ==
  /\ open # <<>>
  /\ LET f == Last(open) IN
       /\ Write(<<Mark(IF f.kind = "obj" THEN "}" ELSE "]")>>)
       /\ open' = Front(open)
       /\ ref' = IF ~f.usage THEN ref
                 ELSE IF f.pair = None THEN [ref EXCEPT !.bad = TRUE]
                 ELSE [ref EXCEPT !.last = f.pair]

\* What an event stream writes between two documents ("data:", "[DONE]").
WriteBetween ==
  /\ open = <<>>
  /\ Write(<<Num, Mark(":"), Mark("["), Num, Mark("]")>>)
  /\ UNCHANGED <<open, ref>>

Next == WriteScalar \/ WriteOpen \/ WritePair \/ WriteClose \/ WriteBetween

-----------------------------------------------------------------------------
\* Whatever strings, braces and quotes in strings and documents the stream is made of,
\* the walker has recorded the usage object a JSON parser reports last under that name
\* as written, is spoilt exactly when a top-level usage member was neither null nor
\* valid, and never buffers more than its bounds; it gives up rather than record
\* anything else (UsageWalker._feed).
WalkerAgreesWithGrammar ==
  /\ ~w.disabled => w.last = ref.last /\ w.bad = ref.bad
  /\ w.disabled => w.bad /\ w.buffer = <<>> /\ w.keyBuffer = <<>>
  /\ Len(w.buffer) <= BufferMax /\ Len(w.keyBuffer) <= KeyMax
=============================================================================
