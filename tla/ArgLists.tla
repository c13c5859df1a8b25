---- MODULE ArgLists ----
(***************************************************************************)
(* The conversions of a constructor's argument list at the end of          *)
(* ecsGenerator.cpp.  They take the list apart at blanks, with commas (and *)
(* in one of them asterisks) made blank first, and count on a type of one  *)
(* word before every name.                                                 *)
(***************************************************************************)
EXTENDS Naturals, Sequences

\* One argument, as declared: where its asterisk stands, if it has one, and
\* whether it begins with const.
Argument(types, names) ==
    [type : types, name : names, star : {"none", "onType", "onName", "apart"}, const : BOOLEAN]

pointers(arg) == IF arg.star = "none" THEN 0 ELSE 1

\* What `input >> singleTerm` reads: a word with the asterisks around it.
word(text, stars) == [text |-> text, stars |-> stars]

wordsOf(arg, starsBlank) ==
    LET kept(where) == IF arg.star = where /\ ~starsBlank THEN 1 ELSE 0
    IN  (IF arg.const THEN << word("const", 0) >> ELSE << >>)
            \o << word(arg.type, kept("onType")) >>
            \o (IF kept("apart") = 1 THEN << word("", 1) >> ELSE << >>)
            \o << word(arg.name, kept("onName")) >>

words(list, starsBlank) ==
    LET upTo[k \in 0 .. Len(list)] ==
            IF k = 0 THEN << >> ELSE upTo[k - 1] \o wordsOf(list[k], starsBlank)
    IN  upTo[Len(list)]

\* What oddPicker picks.  The bug variant picks the others.
pickedEven(ws) == [k \in 1 .. Len(ws) \div 2 |-> ws[2 * k - 1]]
picked(ws) == [k \in 1 .. Len(ws) \div 2 |-> ws[2 * k]]

getNamesFromArgList(list) == picked(words(list, TRUE))

\* getPtrsFromArgList and getNullPtrsFromArgList: a new argument at every
\* other word, the words between with one more asterisk.
getPtrsFromArgList(list) ==
    LET ws == words(list, FALSE)
    IN  [k \in 1 .. (Len(ws) + 1) \div 2 |->
            IF 2 * k <= Len(ws)
            THEN << ws[2 * k - 1], [ws[2 * k] EXCEPT !.stars = @ + 1] >>
            ELSE << ws[2 * k - 1] >>]

\* What they are for: the names of the arguments in order, and for every
\* argument a pointer to it under its name.
namesRight(list, names) ==
    names = [k \in 1 .. Len(list) |-> word(list[k].name, 0)]
pointersRight(list, ptrs) ==
    /\ Len(ptrs) = Len(list)
    /\ \A k \in 1 .. Len(list) :
          /\ Len(ptrs[k]) = 2
          /\ ptrs[k][1].text = list[k].type /\ ptrs[k][2].text = list[k].name
          /\ ptrs[k][1].stars + ptrs[k][2].stars = pointers(list[k]) + 1

====
