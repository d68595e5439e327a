----------------------------- MODULE Commands -----------------------------
(***************************************************************************)
(* What is read in a shell command: whether it searches for a definition,  *)
(* and its shape (src/core/src/rewrite.rs); and what the shell would read. *)
(*                                                                         *)
(* A command is a sequence of pieces: the words and parts of words, and    *)
(* each blank, quote and operator by itself.  The cutting of shapes and    *)
(* targets to 120 and 60 characters is left out.                           *)
(***************************************************************************)
EXTENDS FiniteSetsExt, Integers, SequencesExt

Space == " "
Newline == "\n"
Double == "\""
Single == "'"
Escape == "\\"
Blanks == {Space, Newline}
Quotes == {Double, Single}
\* "$(" stands for the backquote too.
Operators == {">", "|", ";", "$(", "&"}
Readers == {"grep", "rg", "ag", "egrep"}
Keywords == <<"fn", "struct", "enum", "trait", "impl", "type", "class", "interface", "function", "def", "func">>
Metacharacters == {"*", "+", "[", "(", "|", Escape}
NotOfNames == Blanks \union Quotes \union Operators \union Metacharacters \union {"{", ".", "-"}
Letters == {"x"}

\* Where something other than a blank is, and what is there up to one of these pieces.
Inked(s) == {i \in DOMAIN s : s[i] \notin Blanks}
Until(s, i, stops) == SubSeq(s, i, Min({j \in i..(Len(s) + 1) : j = Len(s) + 1 \/ s[j] \in stops}) - 1)
FirstWord(s) == Until(s, Min(Inked(s)), Blanks)
Trim(s) == IF Inked(s) = {} THEN <<>> ELSE SubSeq(s, Min(Inked(s)), Max(Inked(s)))
At(s, part) == {i \in 1..(Len(s) - Len(part) + 1) : SubSeq(s, i, i + Len(part) - 1) = part}

(***************************************************************************)
(* Recognising a search for a definition.                                  *)
(***************************************************************************)
is_rewritable(s) ==
    /\ ToSet(s) \intersect Operators = {}
    /\ At(<<Space>> \o Trim(s) \o <<Space>>, <<Space, "rm", Space>>) = {}
    /\ Inked(s) # {} /\ FirstWord(s) \in {<<r>> : r \in Readers}

\* The text between the first two double quotes, or else the first two single ones.
FirstTwo(s, quote) == {p \in (DOMAIN s) \X (DOMAIN s) : p[1] < p[2] /\ \A i \in 1..p[2] : s[i] = quote <=> i \in {p[1], p[2]}}
quoted_literal(s) ==
    {SubSeq(s, p[1] + 1, p[2] - 1) : p \in IF FirstTwo(s, Double) # {} THEN FirstTwo(s, Double) ELSE FirstTwo(s, Single)}

Lower(s) == [i \in DOMAIN s |-> IF s[i] = "Fn" THEN "fn" ELSE s[i]]

\* The name after the first keyword of the list that the pattern holds, at its first place.
symbol_in(pattern) ==
    LET held == {k \in DOMAIN Keywords : At(Lower(pattern), <<Keywords[k], Space>>) # {}}
        place == Min(At(Lower(pattern), <<Keywords[Min(held)], Space>>))
        after == {i \in Inked(pattern) : i >= place + 2}
        name == Until(pattern, Min(after), NotOfNames)
    IN IF held = {} \/ after = {} \/ name = <<>> \/ name \in {<<l>> : l \in Letters} \/ ToSet(pattern) \intersect Metacharacters # {}
       THEN {} ELSE {name}

detect_definition_search(s) == IF is_rewritable(s) THEN UNION {symbol_in(l) : l \in quoted_literal(s)} ELSE {}

(***************************************************************************)
(* The shape of a command: quoted texts and paths go by a mark, runs of    *)
(* blanks by one.                                                          *)
(***************************************************************************)
Reduce(st, p) ==
    IF st.in \in Quotes THEN [st EXCEPT !.in = IF p = @ THEN "none" ELSE @]
    ELSE IF st.in = "/" /\ p \notin Blanks THEN st
    ELSE IF p \in Blanks THEN [in |-> "none", out |-> IF st.out # <<>> /\ Last(st.out) = Space THEN st.out ELSE Append(st.out, Space)]
    ELSE IF p \in Quotes THEN [in |-> p, out |-> Append(st.out, "$S")]
    ELSE IF p = "/" /\ (st.out = <<>> \/ Last(st.out) = Space) THEN [in |-> p, out |-> Append(st.out, "$P")]
    ELSE [st EXCEPT !.out = Append(@, p)]

fingerprint(s) ==
    LET read[n \in 0..Len(s)] == IF n = 0 THEN [in |-> "none", out |-> <<>>] ELSE Reduce(read[n - 1], s[n])
    IN Trim(read[Len(s)].out)

\* The first two words, which a record keeps of a command.
target_of(s) ==
    LET rest == {i \in Inked(s) : i >= Min(Inked(s)) + Len(FirstWord(s))}
    IN IF Inked(s) = {} THEN <<>>
       ELSE IF rest = {} THEN FirstWord(s)
       ELSE FirstWord(s) \o <<Space>> \o Until(s, Min(rest), Blanks)

(***************************************************************************)
(* What the shell reads: words up to blanks and operators that are not     *)
(* within quotes.                                                          *)
(***************************************************************************)
\* The quote that is open behind the first n pieces.
Open(s) ==
    LET open[n \in 0..Len(s)] ==
            IF n = 0 THEN "none"
            ELSE LET before == open[n - 1]
                 IN IF before = "none" /\ s[n] \in Quotes THEN s[n] ELSE IF before = s[n] THEN "none" ELSE before
    IN open

Bare(s, pieces) == {i \in DOMAIN s : s[i] \in pieces /\ Open(s)[i - 1] = "none"}
Breaks(s) == Bare(s, {";", "|", "&", Newline})
Runs(s, gaps) ==
    {w \in (DOMAIN s) \X (DOMAIN s) :
        w[1] <= w[2] /\ w[1] - 1 \in gaps \union {0} /\ w[2] + 1 \in gaps \union {Len(s) + 1} /\ (w[1]..w[2]) \intersect gaps = {}}
ShellWords(s) == Runs(s, Breaks(s) \union Bare(s, {Space}))

\* The first word is a program that only reads, and no other word belongs to another command.
OneSearch(s) ==
    \E w \in ShellWords(s) :
        /\ SubSeq(s, w[1], w[2]) \in {<<r>> : r \in Readers}
        /\ \A v \in ShellWords(s) : w[1] <= v[1] /\ (w[1]..v[1]) \intersect Breaks(s) = {}

\* The text is a declaration of just that name.
Declares(text, name) ==
    \E k \in ToSet(Keywords) : \E i \in At(Lower(text), <<k, Space>>) : \E j \in (i + 2)..Len(text) :
        /\ \A b \in (i + 2)..(j - 1) : text[b] = Space
        /\ Until(text, j, NotOfNames) = name /\ ToSet(text) \intersect Metacharacters = {}

\* A word behind the first is a quoted text that declares the name.
Seeks(s, name) ==
    \E v, w \in ShellWords(s) :
        /\ v[1] < w[1] /\ w[1] < w[2] /\ s[w[1]] \in Quotes
        /\ \A i \in w[1]..(w[2] - 1) : Open(s)[i] = s[w[1]]
        /\ s[w[2]] = s[w[1]] /\ Declares(SubSeq(s, w[1] + 1, w[2] - 1), name)

\* One line, without backslashes; quotes are only around whole words, are closed, and no
\* double quote is within single ones.
Plain(s) ==
    /\ ToSet(s) \intersect {Newline, Escape} = {} /\ Open(s)[Len(s)] = "none"
    /\ \A i \in DOMAIN s : s[i] \in Quotes =>
          \/ Open(s)[i - 1] = "none" /\ (i = 1 \/ s[i - 1] = Space)
          \/ Open(s)[i - 1] = s[i] /\ (i = Len(s) \/ s[i + 1] = Space)
          \/ Open(s)[i - 1] = Double /\ s[i] = Single
=============================================================================
