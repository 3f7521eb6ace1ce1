--------------------------- MODULE ENetRangeCoder ---------------------------
(***************************************************************************)
(* The range coder of compress.c, which compresses datagrams: an adaptive  *)
(* model of the bytes that follow one and two others, kept alike by the    *)
(* encoder and the decoder, and a coder that narrows a range of integers   *)
(* by the share of each byte.  A byte is a digit of base Base (256 in the  *)
(* code) and the words of the coder have four of them.                     *)
(*                                                                         *)
(* The encoder takes the bytes of a datagram one at a time, whatever       *)
(* buffers they come from, and flushes; then the decoder runs.             *)
(***************************************************************************)
EXTENDS Integers, SequencesExt, FiniteSetsExt

CONSTANTS
    Base,           \* the values of a byte
    Capacity,       \* how many symbols ENetRangeCoder has room for
    Values,         \* the bytes that datagrams are made of
    MaxLength,      \* bound: the bytes of a datagram
    OutLimit        \* the room for the compressed datagram

ASSUME RangeCoderAssumption ==
    /\ Base \in Nat /\ Capacity \in Nat /\ OutLimit \in Nat
    /\ MaxLength \in Nat
    /\ Values \subseteq 0 .. Base - 1

VARIABLES
    input,      \* the bytes encoded so far
    encoder,
    decoder,
    decoded,    \* what the decoder has put out
    phase

vars == <<input, encoder, decoder, decoded, phase>>

Bottom == Base ^ 2
Top == Base ^ 3
Word == Base ^ 4

Order == 2
EscapeMinimum == 1
EscapeDelta == 5

-----------------------------------------------------------------------------
(***************************************************************************)
(* Symbols.  symbols[1] is the root context; a reference of 0 is none.     *)
(***************************************************************************)
Root == 1

Minimum(context) == IF context = Root THEN 1 ELSE 0
Delta(context) == IF context = Root THEN 3 ELSE 2

NewSymbol(value, count) ==
    [value |-> value, count |-> count, under |-> count, left |-> 0,
     right |-> 0, symbols |-> 0, escapes |-> 0, total |-> 0,
     parent |-> Root]

FreshSymbols ==
    << [NewSymbol(0, 0) EXCEPT !.escapes = EscapeMinimum,
                               !.total = EscapeMinimum + Base] >>

\* Symbol number `at' of symbols gets a child on a side of its own.
Created(symbols, at, side, value, delta) ==
    [symbols |-> Append([symbols EXCEPT ![at][side] = Len(symbols) + 1],
                        NewSymbol(value, delta)),
     at |-> Len(symbols) + 1, under |-> 0, count |-> 0]

\* Counts a value in the tree at node; what it found there before.
RECURSIVE Visit(_, _, _, _)
Visit(symbols, node, value, delta) ==
    LET here == symbols[node]
        side == IF value < here.value THEN "left" ELSE "right"
        skipped == IF side = "left" THEN 0 ELSE here.under
        passed == [symbols EXCEPT
                      ![node].under = @ + IF side = "left" THEN delta ELSE 0]
        below == IF here[side] = 0
                 THEN Created(passed, node, side, value, delta)
                 ELSE Visit(passed, here[side], value, delta)
    IN  IF value = here.value
        THEN [symbols |-> [symbols EXCEPT ![node].under = @ + delta,
                                          ![node].count = @ + delta],
              at |-> node, under |-> here.under - here.count,
              count |-> here.count]
        ELSE [below EXCEPT !.under = @ + skipped]

\* ENET_CONTEXT_ENCODE
ContextEncode(symbols, context, value) ==
    LET tree == symbols[context].symbols
        visit == IF tree = 0
                 THEN Created(symbols, context, "symbols", value,
                              Delta(context))
                 ELSE Visit(symbols, tree, value, Delta(context))
    IN  [visit EXCEPT !.under = @ + value * Minimum(context),
                      !.count = @ + Minimum(context)]

\* enet_symbol_rescale
RECURSIVE Rescaled(_, _)
Rescaled(symbols, node) ==
    IF node = 0
    THEN [symbols |-> symbols, total |-> 0]
    ELSE LET left == Rescaled(symbols, symbols[node].left)
             right == Rescaled(left.symbols, symbols[node].right)
             count == symbols[node].count - symbols[node].count \div 2
             under == count + left.total
         IN  [symbols |-> [right.symbols EXCEPT ![node].count = count,
                                                ![node].under = under],
              total |-> under + right.total]

(***************************************************************************)
(* Mutant: the total of a rescaled context leaves the escapes out.         *)
(***************************************************************************)
BugRescaleContext(symbols, context) ==
    LET tree == Rescaled(symbols, symbols[context].symbols)
    IN  [tree.symbols EXCEPT
            ![context].escapes = @ - @ \div 2,
            ![context].total = tree.total + Base * Minimum(context)]

\* ENET_CONTEXT_RESCALE
RescaleContext(symbols, context) ==
    LET tree == Rescaled(symbols, symbols[context].symbols)
        escapes == symbols[context].escapes
                       - symbols[context].escapes \div 2
    IN  [tree.symbols EXCEPT
            ![context].escapes = escapes,
            ![context].total = tree.total + escapes
                                          + Base * Minimum(context)]

(***************************************************************************)
(* Mutant: a context is not rescaled when a symbol has a big count.        *)
(***************************************************************************)
BugCounted(symbols, context, count) ==
    LET escaped == IF count = 0 THEN EscapeDelta ELSE 0
    IN  [symbols EXCEPT ![context].escapes = @ + escaped,
                        ![context].total = @ + escaped + Delta(context)]

\* What coding a value counted in a context adds to it.
Counted(symbols, context, count) ==
    LET escaped == IF count = 0 THEN EscapeDelta ELSE 0
        added == [symbols EXCEPT ![context].escapes = @ + escaped,
                                 ![context].total = @ + escaped
                                                      + Delta(context)]
    IN  IF \/ count > Base - 1 - 2 * Delta(context) + Minimum(context)
           \/ added[context].total > Bottom - Base
        THEN RescaleContext(added, context)
        ELSE added

-----------------------------------------------------------------------------
(***************************************************************************)
(* A coder: the model, and the range [low, low + range) of words.          *)
(* digits are those shifted out at the top.                                *)
(***************************************************************************)
FreshCoder ==
    [symbols |-> FreshSymbols, predicted |-> Root, order |-> 0,
     low |-> 0, range |-> Word - 1, digits |-> << >>]

RECURSIVE Normalised(_)
Normalised(coder) ==
    LET high == (coder.low + coder.range) % Word
        straddles == coder.low \div Top # high \div Top
        range == IF straddles
                 THEN (Bottom - (coder.low % Bottom)) % Bottom
                 ELSE coder.range
    IN  IF straddles /\ coder.range >= Bottom
        THEN coder
        ELSE Normalised([coder EXCEPT
                            !.digits = Append(@, coder.low \div Top),
                            !.low = (@ * Base) % Word,
                            !.range = (range * Base) % Word])

\* ENET_RANGE_CODER_ENCODE, and with the digits read ..._DECODE
Narrowed(coder, under, count, total) ==
    LET share == coder.range \div total
    IN  Normalised([coder EXCEPT !.low = (@ + under * share) % Word,
                                 !.range = share * count])

\* *parent = symbol: predicted first, then the symbol of the context before.
Linked(coder, from, symbol) ==
    IF from = 0 THEN [coder EXCEPT !.predicted = symbol]
                ELSE [coder EXCEPT !.symbols[from].parent = symbol]

RECURSIVE EncodedFrom(_, _, _, _)
EncodedFrom(coder, context, value, from) ==
    LET here == coder.symbols[context]
        visit == ContextEncode(coder.symbols, context, value)
        linked == Linked([coder EXCEPT !.symbols = visit.symbols],
                         from, visit.at)
        coded ==
            IF visit.count > 0
            THEN Narrowed(linked, here.escapes + visit.under, visit.count,
                          here.total)
            ELSE IF 0 < here.escapes /\ here.escapes < here.total
                 THEN Narrowed(linked, 0, here.escapes, here.total)
                 ELSE linked
        counted == [coded EXCEPT
                       !.symbols = Counted(@, context, visit.count)]
    IN  IF visit.count > 0
        THEN counted
        ELSE EncodedFrom(counted, counted.symbols[context].parent, value,
                         visit.at)

(***************************************************************************)
(* Mutant: the symbols are freed when fewer than two are left.             *)
(***************************************************************************)
BugAdvanced(coder) ==
    LET next == IF coder.order >= Order
                THEN [coder EXCEPT
                         !.predicted = coder.symbols[@].parent]
                ELSE [coder EXCEPT !.order = @ + 1]
    IN  IF Len(coder.symbols) > Capacity - Order
        THEN [next EXCEPT !.symbols = FreshSymbols, !.predicted = Root,
                          !.order = 0]
        ELSE next

\* nextInput, with ENET_RANGE_CODER_FREE_SYMBOLS
Advanced(coder) ==
    LET next == IF coder.order >= Order
                THEN [coder EXCEPT
                         !.predicted = coder.symbols[@].parent]
                ELSE [coder EXCEPT !.order = @ + 1]
    IN  IF Len(coder.symbols) >= Capacity - Order
        THEN [next EXCEPT !.symbols = FreshSymbols, !.predicted = Root,
                          !.order = 0]
        ELSE next

Encoded(coder, value) ==
    Advanced(EncodedFrom(coder, coder.predicted, value, 0))

\* ENET_RANGE_CODER_FLUSH
RECURSIVE Flushed(_)
Flushed(coder) ==
    IF coder.low = 0
    THEN coder
    ELSE Flushed([coder EXCEPT !.digits = Append(@, coder.low \div Top),
                               !.low = (@ * Base) % Word])

-----------------------------------------------------------------------------
(***************************************************************************)
(* Decoding.                                                               *)
(***************************************************************************)
\* decodeCode: the four digits behind those taken, zeroes after the last.
Code(coder, data) ==
    LET digit(i) == IF Len(coder.digits) + i <= Len(data)
                    THEN data[Len(coder.digits) + i] ELSE 0
    IN  digit(1) * Top + digit(2) * Bottom + digit(3) * Base + digit(4)

\* ENET_RANGE_CODER_READ
Read(coder, data, total) ==
    (((Code(coder, data) - coder.low) % Word)
        \div (coder.range \div total)) % Bottom

(***************************************************************************)
(* The context in which the next value is coded, behind the escapes of     *)
(* longer ones; 0 when the data ends.                                      *)
(***************************************************************************)
RECURSIVE Located(_, _, _)
Located(coder, data, context) ==
    LET here == coder.symbols[context]
        code == Read(coder, data, here.total)
    IN  IF context # Root /\ (here.escapes = 0 \/ here.escapes >= here.total)
        THEN Located(coder, data, here.parent)
        ELSE IF code >= here.escapes
        THEN [coder |-> coder, context |-> context,
              code |-> code - here.escapes]
        ELSE IF context = Root
        THEN [coder |-> coder, context |-> 0, code |-> 0]
        ELSE Located(Narrowed(coder, 0, here.escapes, here.total), data,
                     here.parent)

NoSymbol == [value |-> 0, under |-> 0, count |-> 0]

(***************************************************************************)
(* ENET_CONTEXT_DECODE in the tree at node: the value that a code stands   *)
(* for, which only the root context need not have met before.              *)
(***************************************************************************)
RECURSIVE Descended(_, _, _, _, _)
Descended(symbols, node, code, under, minimum) ==
    LET here == symbols[node]
        after == under + here.under + (here.value + 1) * minimum
        first == after - (here.count + minimum)
        unseen(value, rest) ==
            IF minimum = 0 THEN NoSymbol
            ELSE [value |-> value, under |-> code - (rest % minimum),
                  count |-> minimum]
    IN  CASE code \in first .. after - 1 ->
                [value |-> here.value, under |-> first,
                 count |-> here.count + minimum]
          [] code >= after /\ here.right # 0 ->
                Descended(symbols, here.right, code, under + here.under,
                          minimum)
          [] code >= after /\ here.right = 0 ->
                unseen(here.value + 1 + (code - after), code - after)
          [] code < first /\ here.left # 0 ->
                Descended(symbols, here.left, code, under, minimum)
          [] code < first /\ here.left = 0 ->
                unseen(here.value - 1 - (first - code - 1),
                       first - code - 1)

Found(symbols, context, code) ==
    IF symbols[context].symbols = 0
    THEN [value |-> code, under |-> code, count |-> Minimum(context)]
    ELSE Descended(symbols, symbols[context].symbols, code, 0,
                   Minimum(context))

(***************************************************************************)
(* Mutant: the contexts that were escaped from do not learn the value.     *)
(***************************************************************************)
BugPatched(coder, context, stop, value, from, bottom) ==
    Linked(coder, from, bottom)

\* patchContexts
RECURSIVE Patched(_, _, _, _, _, _)
Patched(coder, context, stop, value, from, bottom) ==
    IF context = stop
    THEN Linked(coder, from, bottom)
    ELSE LET visit == ContextEncode(coder.symbols, context, value)
             linked == Linked([coder EXCEPT !.symbols = visit.symbols],
                              from, visit.at)
             counted == [linked EXCEPT
                            !.symbols = Counted(@, context, visit.count)]
         IN  Patched(counted, counted.symbols[context].parent, stop, value,
                     visit.at, bottom)

\* The decoder after the value found in the context.
Decoded(coder, context, found) ==
    LET here == coder.symbols[context]
        visit == ContextEncode(coder.symbols, context, found.value)
        narrowed == Narrowed([coder EXCEPT !.symbols = visit.symbols],
                             here.escapes + found.under, found.count,
                             here.total)
        counted == [narrowed EXCEPT
                       !.symbols = Counted(@, context, found.count)]
    IN  Advanced(Patched(counted, coder.predicted, context, found.value, 0,
                         visit.at))

-----------------------------------------------------------------------------
Init ==
    /\ input = << >>
    /\ encoder = FreshCoder
    /\ decoder = FreshCoder
    /\ decoded = << >>
    /\ phase = "encoding"

\* One byte of enet_range_coder_compress, which gives up when out of room.
EncodeByte(value) ==
    LET next == Encoded(encoder, value)
    IN  /\ phase = "encoding"
        /\ Len(input) < MaxLength
        /\ input' = Append(input, value)
        /\ encoder' = next
        /\ phase' = IF Len(next.digits) > OutLimit THEN "failed" ELSE phase
        /\ UNCHANGED <<decoder, decoded>>

Flush ==
    LET last == Flushed(encoder)
    IN  /\ phase = "encoding"
        /\ input # << >>
        /\ encoder' = last
        /\ phase' = IF Len(last.digits) \in 1 .. OutLimit
                    THEN "decoding" ELSE "failed"
        /\ UNCHANGED <<input, decoder, decoded>>

\* One round of enet_range_coder_decompress.
DecodeByte ==
    LET located == Located(decoder, encoder.digits, decoder.predicted)
        found == Found(located.coder.symbols, located.context, located.code)
    IN  /\ phase = "decoding"
        /\ located.context # 0
        /\ IF found.count = 0 \/ Len(decoded) >= MaxLength
           THEN phase' = "failed" /\ UNCHANGED <<decoder, decoded>>
           ELSE /\ decoder' = Decoded(located.coder, located.context, found)
                /\ decoded' = Append(decoded, found.value)
                /\ UNCHANGED phase
        /\ UNCHANGED <<input, encoder>>

DecodeEnd ==
    /\ phase = "decoding"
    /\ Located(decoder, encoder.digits, decoder.predicted).context = 0
    /\ phase' = "decoded"
    /\ UNCHANGED <<input, encoder, decoder, decoded>>

Next ==
    \/ \E value \in Values : EncodeByte(value)
    \/ Flush
    \/ DecodeByte
    \/ DecodeEnd

Spec == Init /\ [][Next]_vars

-----------------------------------------------------------------------------
(***************************************************************************)
(* What is decompressed is what was compressed, byte by byte, and ends     *)
(* where it ended, although neither a length nor an end is encoded: the    *)
(* zeroes that the flush leaves out, and those that the decoder reads      *)
(* behind the data, are the escape from the root context.                  *)
(***************************************************************************)
Lossless ==
    /\ IsPrefix(decoded, input)
    /\ phase = "decoded" => decoded = input
    /\ phase = "failed" => decoded = << >>

(***************************************************************************)
(* The models never use more symbols than there are, also while they learn *)
(* a byte: up to Order + 1 symbols are created between two looks at how    *)
(* many are left.                                                          *)
(***************************************************************************)
WithinCapacity ==
    \A coder \in {encoder, decoder}, value \in Values :
        Len(EncodedFrom(coder, coder.predicted, value, 0).symbols)
            <= Capacity

\* The nodes of the tree at a node.
RECURSIVE Nodes(_, _)
Nodes(symbols, node) ==
    IF node = 0 THEN {}
    ELSE {node} \union Nodes(symbols, symbols[node].left)
                \union Nodes(symbols, symbols[node].right)

Count(symbols, node) ==
    MapThenSumSet(LAMBDA n : symbols[n].count, Nodes(symbols, node))

(***************************************************************************)
(* The sums from which shares of the range are computed stay those of the  *)
(* counts they stand for, through insertions and rescaling: `total' of a   *)
(* context, and `under' of a node for itself and what is left of it.  And  *)
(* a count never exceeds the byte that holds it, although the rescaling    *)
(* comes after it has grown.                                               *)
(***************************************************************************)
SumsExact ==
    \A coder \in {encoder, decoder} :
        \A i \in DOMAIN coder.symbols :
            LET symbols == coder.symbols
                at == symbols[i]
            IN  /\ at.count < Base
                /\ at.total = at.escapes + Base * Minimum(i)
                                  + Count(symbols, at.symbols)
                /\ i # Root =>
                       at.under = at.count + Count(symbols, at.left)
=============================================================================
