------------------------------ MODULE PixelFormats ------------------------------
(***************************************************************************)
(* The choice of a pixel format (wine/pe/wgl_formats.c): ChoosePixelFormat *)
(* keeps the best format it has seen while it goes through the list, and   *)
(* wglChoosePixelFormatARB filters the list by the attributes asked for    *)
(* and sorts what is left. Both are functions of the list and the request. *)
(*                                                                         *)
(* A format is a record of the attributes that play different parts:       *)
(* window (drawn to), double, color, alpha, depth, accel and swap; the     *)
(* other sizes in bits are treated as alpha is, the other flags as double. *)
(* Descriptors hold sizes in bytes: a size of -1 is 255.                   *)
(***************************************************************************)
EXTENDS Integers, Sequences, FiniteSets

CONSTANTS Colors, Sizes, MaxFormats

Byte(n) == n % 256

Format == [window : BOOLEAN, double : BOOLEAN, color : Colors, alpha : Sizes, depth : Sizes]

\* What ChoosePixelFormat is asked for: 0 bits is no wish, and neither is
\* "any" (PFD_DOUBLEBUFFER_DONTCARE, PFD_DEPTH_DONTCARE).
Descriptor == [window : BOOLEAN, double : {"yes", "no", "any"}, color : Colors \cup {0}, alpha : Sizes, depth : Sizes,
               anyDepth : BOOLEAN]

-----------------------------------------------------------------------------
(* wglChoosePixelFormat. *)

\* A wish for `want` bits is better served by `new` than by `best`.
Serves(want, new, best) == (want > best /\ new > best) \/ (new >= want /\ new < best)

\* The wishes in the order the loop looks at them; what it goes on to when a
\* format is as good as the best in one.
Found(ask, best, f) ==
    LET unserved == best.index = 0
        double == ask.double = "yes"
        WishesBits ==
            <<[want |-> ask.color, new |-> f.color, best |-> best.color],
              [want |-> ask.alpha, new |-> f.alpha, best |-> best.alpha],
              [want |-> IF ask.anyDepth THEN 0 ELSE ask.depth, new |-> f.depth, best |-> best.depth]>>
        Differs(i) == WishesBits[i].want # 0 /\ WishesBits[i].new # WishesBits[i].best
        BetterBits ==
            IF \E i \in 1..3 : Differs(i)
            THEN LET i == CHOOSE i \in 1..3 : Differs(i) /\ \A j \in 1..i - 1 : ~Differs(j)
                 IN  Serves(WishesBits[i].want, WishesBits[i].new, WishesBits[i].best)
            ELSE IF ask.anyDepth THEN f.depth < best.depth
            ELSE ask.depth = 0 /\ f.depth > best.depth
    IN  IF ask.double = "any"
        THEN unserved \/ BetterBits
        ELSE IF (unserved \/ best.double # double) /\ f.double = double
        THEN TRUE
        ELSE (unserved \/ f.double = best.double)
                \* Formats are not stereo: one that was not asked for is found.
             /\ (unserved \/ BetterBits)

Eligible(ask, f) == ask.window => f.window

NoBest == [index |-> 0, double |-> FALSE, color |-> Byte(-1), alpha |-> Byte(-1), depth |-> Byte(-1)]
Better(ask, best, f, i) ==
    IF Eligible(ask, f) /\ Found(ask, best, f)
    THEN [index |-> i, double |-> f.double, color |-> f.color, alpha |-> f.alpha, depth |-> f.depth]
    ELSE best
ChoosePixelFormat(ask, formats) ==
    LET best[i \in 0..Len(formats)] ==
            IF i = 0 THEN NoBest ELSE Better(ask, best[i - 1], formats[i], i)
    IN  best[Len(formats)].index

\* A format that serves the request at least as well, wish by wish in order
\* of importance.
Rank(want, have) == IF want = 0 THEN 0 ELSE IF have >= want THEN have - want ELSE 1000 - have
Ranks(ask, f) ==
    <<IF ask.double = "any" \/ f.double = (ask.double = "yes") THEN 0 ELSE 1,
      Rank(ask.color, f.color),
      Rank(ask.alpha, f.alpha),
      IF ask.anyDepth THEN f.depth ELSE IF ask.depth = 0 THEN 1000 - f.depth ELSE Rank(ask.depth, f.depth)>>
AtLeastAsGood(r, s) ==
    \A i \in DOMAIN r : r[i] > s[i] => \E j \in 1..i - 1 : r[j] < s[j]

\* ChoosePixelFormat gives a format the DC can use when there is one, and the
\* best of them by double buffering, then color, alpha and depth bits.
ChosenIsBest(ask, formats) ==
    LET usable == {i \in DOMAIN formats : Eligible(ask, formats[i])}
        chosen == ChoosePixelFormat(ask, formats)
    IN  /\ chosen = 0 <=> usable = {}
        /\ chosen # 0 =>
              /\ chosen \in usable
              /\ \A i \in usable : AtLeastAsGood(Ranks(ask, formats[chosen]), Ranks(ask, formats[i]))

-----------------------------------------------------------------------------
(* wglChoosePixelFormatARB. *)

Attribs == {"window", "accel", "color", "alpha", "shift", "swap", "samples"}

\* wgl_attrib_match_criteria.
Match(attrib) ==
    CASE attrib \in {"window", "accel"} -> "exact"
      [] attrib \in {"color", "alpha", "samples"} -> "minimum"
      [] attrib \in {"shift", "swap"} -> "ignore"

\* wgl_attrib_sort_priority and wgl_attrib_value_priority.
Priority(attrib) ==
    CASE attrib = "window" -> 1 [] attrib = "accel" -> 3 [] attrib = "color" -> 4 [] attrib = "alpha" -> 7
      [] attrib = "swap" -> 12 [] OTHER -> 100
ValuePriority(value) ==
    CASE value \in {"undefined", "full"} -> 1 [] value \in {"exchange", "generic"} -> 2 [] value \in {"copy", "none"} -> 3

\* filter_format_array, for one attribute.
Passes(f, attrib, value) ==
    CASE Match(attrib) = "exact" -> f[attrib] = value
      [] Match(attrib) = "minimum" -> f[attrib] >= value
      [] attrib = "swap" -> (f[attrib] = "copy") = (value = "copy")
      [] OTHER -> TRUE

\* compare_formats: whether formats[a] sorts before formats[b]; attributes in
\* the order of their priorities, which qsort leaves open among equals.
Before(formats, order, a, b) ==
    LET Value(i, attrib) == formats[i][attrib]
        differing == {k \in DOMAIN order : Value(a, order[k]) # Value(b, order[k])}
    IN  IF differing = {} THEN a < b
        ELSE LET attrib == order[CHOOSE k \in differing : \A l \in differing : k <= l]
                 va == Value(a, attrib)
                 vb == Value(b, attrib)
             IN  CASE attrib \in {"accel", "swap"} -> ValuePriority(va) < ValuePriority(vb)
                   [] attrib = "color" -> IF va >= 32 /\ vb >= 32 THEN va < vb ELSE vb < va
                   [] attrib = "window" -> ~va /\ vb
                   [] OTHER -> va < vb

Orders(attribs) ==
    {o \in [1..Cardinality(attribs) -> attribs] :
        /\ \A i, j \in DOMAIN o : i # j => o[i] # o[j]
        /\ \A i, j \in DOMAIN o : i < j => Priority(o[i]) <= Priority(o[j])}

\* The request is a function from attributes to values; the later of two
\* values of an attribute counts. The formats that are left, best first, for
\* each order the sort may use.
ChooseARB(ask, formats, order, most) ==
    LET left == {i \in DOMAIN formats : \A a \in DOMAIN ask : Passes(formats[i], a, ask[a])}
        place(i) == Cardinality({j \in left : Before(formats, order, j, i)}) + 1
    IN  {<<place(i), i>> : i \in {j \in left : place(j) <= most}}

SortedBy(ask) == DOMAIN ask \cup {"accel", "color"}

\* The comparison is one qsort may use, a strict total order of the formats,
\* whatever order it finds the attributes in; and what is returned meets the
\* request, in an order where an accelerated format comes first and 32 bits
\* of color before any other number.
ChoicesAreSorted(ask, formats) ==
    \A order \in Orders(SortedBy(ask)) :
        /\ \A a, b \in DOMAIN formats :
              a # b => Before(formats, order, a, b) # Before(formats, order, b, a)
        /\ \A a, b, c \in DOMAIN formats :
              Before(formats, order, a, b) /\ Before(formats, order, b, c) => Before(formats, order, a, c)
        /\ LET choice == ChooseARB(ask, formats, order, Len(formats))
           IN  /\ {c[1] : c \in choice} = 1..Cardinality(choice)
               /\ \A c, d \in choice :
                     c[1] < d[1] /\ "window" \notin DOMAIN ask =>
                        /\ ValuePriority(formats[c[2]].accel) <= ValuePriority(formats[d[2]].accel)
                        /\ formats[d[2]].color = 32 /\ formats[c[2]].accel = formats[d[2]].accel => formats[c[2]].color = 32
=============================================================================
