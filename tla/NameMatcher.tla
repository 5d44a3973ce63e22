----------------------------- MODULE NameMatcher -----------------------------
(* screening/matcher.py: how alike a name asked for and a name of the         *)
(* watchlist are.  Both are spelt a letter at a time; every pair they pass is *)
(* compared.  A score is a fraction; normalise gives the words compared here. *)
EXTENDS Integers, SequencesExt

CONSTANTS
    Letters,     \* bound: the letters of names, numbered by the alphabet
    MaxLetters   \* bound: the letters of a name

ASSUME LettersAssumption == Letters \subseteq 1 .. 26

VARIABLES query, cand   \* the two names, sequences of words

nameVars == <<query, cand>>

NamesInit == query = <<>> /\ cand = <<>>

Spelt(name) == Len(FlattenSeq(name)) < MaxLetters

\* a name goes on with a letter in its last word, or in a word of its own
Longer(name, l) ==
    {Append(name, <<l>>)} \cup
    (IF name = <<>> THEN {} ELSE {[name EXCEPT ![Len(name)] = Append(@, l)]})

NamesNext == \E l \in Letters :
    \/ Spelt(query) /\ query' \in Longer(query, l) /\ UNCHANGED cand
    \/ Spelt(cand) /\ cand' \in Longer(cand, l) /\ UNCHANGED query

NamesSpec == NamesInit /\ [][NamesNext]_nameVars

-----------------------------------------------------------------------------
(* jaro and jaro_winkler                                                      *)

Zero == [n |-> 0, d |-> 1]
One == [n |-> 1, d |-> 1]
gcd[p \in Nat \X Nat] == IF p[2] = 0 THEN p[1] ELSE gcd[<<p[2], p[1] % p[2]>>]
Frac(n, d) == [n |-> n \div gcd[<<n, d>>], d |-> d \div gcd[<<n, d>>]]   \* in lowest terms
Plus(x, y) == Frac(x.n * y.d + y.n * x.d, x.d * y.d)
Less(x, y) == x.n * y.d < y.n * x.d

Apart(i, j) == IF i < j THEN j - i ELSE i - j

\* mutant: the window is that of the first word
WindowOfFirst(a, b) == Len(a) \div 2 - 1
Window(a, b) == Max({Len(a), Len(b)}) \div 2 - 1

Alike(a, b, i, j) == Apart(i, j) <= Window(a, b) /\ b[j] = a[i]

\* a letter of a takes the first like it that is within reach and free
Match(a, b, m, i) ==
    LET js == {j \in DOMAIN b : Alike(a, b, i, j) /\ \A p \in m : p[2] # j}
    IN IF js = {} THEN m ELSE m \cup {<<i, Min(js)>>}

Matched(a, b) ==
    LET upto[i \in 0 .. Len(a)] == IF i = 0 THEN {} ELSE Match(a, b, upto[i - 1], i)
    IN upto[Len(a)]

\* the letters matched, each word's in its own order, that differ
Rank(is, i) == Cardinality({k \in is : k < i})
Misplaced(a, b, m) ==
    LET is == {p[1] : p \in m}
        js == {p[2] : p \in m}
    IN {p \in is \X js : Rank(is, p[1]) = Rank(js, p[2]) /\ a[p[1]] # b[p[2]]}

\* the mean of the shares of letters matched and of those matched in place
OfMatches(a, b, n, t) ==
    IF n = 0 THEN Zero
    ELSE Frac(n * n * (Len(a) + Len(b)) + (n - t) * Len(a) * Len(b), 3 * Len(a) * Len(b) * n)

jaro(a, b) ==
    IF a = b THEN One
    ELSE LET m == Matched(a, b) IN OfMatches(a, b, Cardinality(m), Cardinality(Misplaced(a, b, m)) \div 2)

Prefix(a, b) == Max({k \in 0 .. 4 : k <= Len(a) /\ k <= Len(b) /\ SubSeq(a, 1, k) = SubSeq(b, 1, k)})
Boosted(j, prefix) == Frac(10 * j.n + prefix * (j.d - j.n), 10 * j.d)

jaro_winkler(a, b) == Boosted(jaro(a, b), Prefix(a, b))

-----------------------------------------------------------------------------
(* soundex, token_set_score and score_against                                 *)

\* a b c d e f g h i j k l m n o p q r s t u v w x y z
Codes == <<0, 1, 2, 3, 0, 1, 2, 0, 0, 2, 2, 4, 5, 5, 0, 1, 2, 6, 2, 3, 0, 1, 0, 2, 0, 2>>
HW == {8, 23}

soundex(word) ==
    LET Hear(s, l) ==
            [out |-> IF Codes[l] # 0 /\ Codes[l] # s.last THEN Append(s.out, Codes[l]) ELSE s.out,
             last |-> IF l \in HW THEN s.last ELSE Codes[l]]
        all == FoldLeft(Hear, [out |-> <<>>, last |-> Codes[Head(word)]], Tail(word)).out \o <<0, 0, 0>>
    IN <<Head(word)>> \o SubSeq(all, 1, 3)

\* mutant: a word of the longer name may match twice
FreeAlways(used, i) == TRUE
Free(used, i) == i \notin used

\* the first of the best scores above nothing
BestOf(score) == Min({i \in DOMAIN score : \A k \in DOMAIN score : ~Less(score[i], score[k])})
Pair(acc, word, long) ==
    LET score == [i \in {k \in DOMAIN long : Free(acc.used, k)} |-> jaro_winkler(word, long[i])]
    IN IF \A i \in DOMAIN score : score[i] = Zero THEN acc
       ELSE [used |-> acc.used \cup {BestOf(score)}, total |-> Plus(acc.total, score[BestOf(score)])]

\* how well words match, less for the words of the longer name left over
Mean(total, short, long) == Frac(total.n * (3 * long + short), total.d * short * 4 * long)

Pairing(short, long) ==
    LET upto[i \in 0 .. Len(short)] ==
            IF i = 0 THEN [used |-> {}, total |-> Zero] ELSE Pair(upto[i - 1], short[i], long)
    IN Mean(upto[Len(short)].total, Len(short), Len(long))

token_set_score(p, q) ==
    IF p = <<>> \/ q = <<>> THEN Zero
    ELSE IF Len(p) <= Len(q) THEN Pairing(p, q) ELSE Pairing(q, p)

Before(u, v) ==
    \E k \in 0 .. Len(u) : /\ k <= Len(v) /\ SubSeq(u, 1, k) = SubSeq(v, 1, k)
                           /\ IF k = Len(u) THEN TRUE ELSE k < Len(v) /\ u[k + 1] < v[k + 1]
sorted(name) == SortSeq(name, LAMBDA u, v : u # v /\ Before(u, v))

phonetic(p, q) == Len(p) = Len(q) /\ \A i \in DOMAIN p : soundex(sorted(p)[i]) = soundex(sorted(q)[i])
\* sorted, the names are equal: the same words, in whatever order
exact(p, q) == \E f \in Bijection(DOMAIN p, DOMAIN q) : \A i \in DOMAIN p : p[i] = q[f[i]]

Capped(s) == IF Less(One, s) THEN One ELSE s

score_against(p, q) ==
    IF exact(p, q) THEN One
    ELSE IF phonetic(p, q) THEN Capped(Plus(token_set_score(p, q), [n |-> 1, d |-> 20]))
    ELSE token_set_score(p, q)

-----------------------------------------------------------------------------
(* Properties.                                                                *)

\* Type invariant of the names.
NamesTypeOK == {query, cand} \subseteq Seq(Seq(Letters))

\* "Each candidate gets a score in [0, 1]", and the fast path for exact matches
\* changes none: only names of the same words score 1, words that sound alike aside.
OnlySameNamesAreCertain == query # <<>> /\ cand # <<>> =>
    LET s == token_set_score(query, cand) IN
        /\ ~Less(One, s) /\ (s = One <=> exact(query, cand))
        /\ score_against(query, cand) = One => exact(query, cand) \/ phonetic(query, cand)

\* Which word is the query's and which the watchlist's makes no difference.
WordsMatchBothWays == \A i \in DOMAIN query, k \in DOMAIN cand :
    jaro_winkler(query[i], cand[k]) = jaro_winkler(cand[k], query[i])

-----------------------------------------------------------------------------
(* What the documents or comments say of this code and the code does not do. *)

\* "Word order does not matter".
WordOrderIsFree == score_against(query, cand) = score_against(Reverse(query), cand)
=============================================================================
