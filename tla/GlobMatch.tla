------------------------------- MODULE GlobMatch -------------------------------
(***************************************************************************)
(* Which files a path with wildcards selects: the matcher with its one     *)
(* bookmark, the split of a path into directory and pattern, the flat and  *)
(* the recursive resolution over a transport's listings. A path is a       *)
(* sequence of characters; a character class counts as one.                *)
(***************************************************************************)
EXTENDS Integers, Sequences, FiniteSets, SequencesExt, FiniteSetsExt

\* Two character classes: what they list, and whether they negate it.  A "[" that nothing
\* closes is a character "[" of a pattern here, and fits nothing.
Classes == {"[a-b]", "[!a]"}
Lists == [class \in Classes |-> IF class = "[!a]" THEN {"a"} ELSE {"a", "b"}]
MatchCharClass(class, ch) == (ch \in Lists[class]) # (class = "[!a]")

\* One character of the pattern against one of the text, the star apart.
Fits(p, ch) ==
  IF p \in Classes THEN MatchCharClass(p, ch)
  ELSE IF p = "?" THEN ch # "/" ELSE p = ch /\ p # "["

\* The bookmark does not move on: the same characters are tried again and given up.
GlobMatchesOnce(pat, txt) ==
  LET scan[pi \in 1..(Len(pat) + 1), ti \in 1..(Len(txt) + 1), star \in 0..Len(pat)] ==
        IF ti > Len(txt)
        THEN \A i \in pi..Len(pat) : pat[i] = "*"
        ELSE IF pi <= Len(pat) /\ pat[pi] = "*" THEN scan[pi + 1, ti, pi]
        ELSE IF pi <= Len(pat) /\ Fits(pat[pi], txt[ti]) THEN scan[pi + 1, ti + 1, star]
        ELSE IF star # 0 THEN scan[star + 1, ti + 1, star]
        ELSE FALSE
  IN  scan[1, 1, 0]

\* A state of the scan: where it is in the pattern and in the text, the star it passed last
\* (0 before one), and the place in the text where that star ends for now.
At(pi, ti, star, star_ti) == [pi |-> pi, ti |-> ti, star |-> star, star_ti |-> star_ti]

Places(pat, txt) ==
  {s \in [pi : 1..(Len(pat) + 1), ti : 1..(Len(txt) + 1), star : 0..Len(pat), star_ti : 0..(Len(txt) + 1)] :
     s.star < s.pi /\ s.star_ti <= s.ti}

\* The scan: pi and ti walk the pattern and the text; at a star they leave a bookmark,
\* to which a mismatch goes back with one more character given to the star.
GlobMatches(pat, txt) ==
  LET scan[s \in Places(pat, txt)] ==
        IF s.ti > Len(txt)
        THEN \A i \in s.pi..Len(pat) : pat[i] = "*"
        ELSE IF s.pi <= Len(pat) /\ pat[s.pi] = "*" THEN scan[At(s.pi + 1, s.ti, s.pi, s.ti)]
        ELSE IF s.pi <= Len(pat) /\ Fits(pat[s.pi], txt[s.ti])
             THEN scan[At(s.pi + 1, s.ti + 1, s.star, s.star_ti)]
        ELSE IF s.star # 0 THEN scan[At(s.star + 1, s.star_ti + 1, s.star, s.star_ti + 1)]
        ELSE FALSE
  IN  scan[At(1, 1, 0, 0)]

-----------------------------------------------------------------------------
(* The files of a transport and its listings.                              *)

Slashes(path) == {i \in DOMAIN path : path[i] = "/"}
Name(path) == IF Slashes(path) = {} THEN path ELSE SubSeq(path, Max(Slashes(path)) + 1, Len(path))
Dir(path)  == IF Slashes(path) = {} THEN <<".">> ELSE SubSeq(path, 1, Max(Slashes(path)) - 1)
Joined(dir, name) == IF dir = <<".">> THEN name ELSE dir \o <<"/">> \o name

\* list: the names of the files of one directory.
Listed(files, dir) == {Name(f) : f \in {g \in files : Dir(g) = dir}}

\* list_recursive: by directories where the transport can list those; where it cannot
\* (the default of list_dirs), the top directory alone.
ListRecursive(files, dir, lists_dirs) ==
  IF ~lists_dirs THEN Listed(files, dir)
  ELSE IF dir = <<".">> THEN files
  ELSE {SubSeq(f, Len(dir) + 2, Len(f)) : f \in {g \in files : IsPrefix(dir \o <<"/">>, g)}}

IsWild(p) == p \in {"*", "?", "["} \cup Classes

\* split_glob_path: the pattern starts after the last slash before the first wildcard.
SplitGlobPath(path) ==
  LET first  == Min({i \in DOMAIN path : IsWild(path[i])})
      before == {i \in Slashes(path) : i < first}
  IN  IF before = {} THEN [dir |-> <<".">>, pattern |-> path]
      ELSE [dir |-> SubSeq(path, 1, Max(before) - 1),
            pattern |-> SubSeq(path, Max(before) + 1, Len(path))]

ResolveFlat(files, path) ==
  LET s == SplitGlobPath(path)
  IN  {Joined(s.dir, name) : name \in {n \in Listed(files, s.dir) : GlobMatches(s.pattern, n)}}

\* The position of the first "**/".
DoubleStars(path) == {i \in 1..(Len(path) - 2) : SubSeq(path, i, i + 2) = <<"*", "*", "/">>}

EndsInStars(path) == IsSuffix(<<"*", "*">>, path)

\* The directory before the double star and the pattern behind it.
SplitRecursive(path) ==
  LET at == IF DoubleStars(path) = {} THEN Len(path) - 1 ELSE Min(DoubleStars(path))
  IN  [dir     |-> IF at = 1 THEN <<".">> ELSE SubSeq(path, 1, at - 2),
       pattern |-> IF DoubleStars(path) = {} THEN <<"*">> ELSE SubSeq(path, at + 3, Len(path))]

\* The file's path below the prefix or its name alone may match the rest of the pattern.
ResolveRecursive(files, path, lists_dirs) ==
  LET s == SplitRecursive(path)
  IN  {Joined(s.dir, rel) :
         rel \in {r \in ListRecursive(files, s.dir, lists_dirs) :
                    GlobMatches(s.pattern, r) \/ GlobMatches(s.pattern, Name(r))}}

\* resolve_glob; nothing found is an error, here the empty set.
ResolveGlob(files, path, lists_dirs) ==
  IF \A i \in DOMAIN path : ~IsWild(path[i]) THEN {path}
  ELSE IF DoubleStars(path) # {} \/ EndsInStars(path) THEN ResolveRecursive(files, path, lists_dirs)
  ELSE ResolveFlat(files, path)

-----------------------------------------------------------------------------
CONSTANTS MaxPattern, MaxText

PatternChars == {"a", "b", "*", "?", "["} \cup Classes
TextChars    == {"a", "b", "/"}

GlobCases == [algo : {"glob"}, pattern : SeqOf(PatternChars, MaxPattern), text : SeqOf(TextChars, MaxText)]

ResolveCases ==
  [algo : {"resolve"}, lists_dirs : BOOLEAN,
   dir : {<<>>, <<"d", "/">>, <<"d", "/", "d", "/">>}, stars : {<<>>, <<"*", "*", "/">>},
   name : {<<"*">>, <<"a", "*">>, <<"?">>, <<"b", "?">>, <<"*", "*">>},
   files : SUBSET {<<"a">>, <<"b", "a">>, <<"d", "/", "a">>, <<"d", "/", "b">>, <<"a", "/", "b">>,
                   <<"d", "/", "d", "/", "a", "b">>, <<"d", "d", "/", "a">>}]

\* A star stands for some characters, but none at the stops; each other character of a
\* pattern for one. From the end of the pattern on, the places where the rest of the text
\* is what its rest stands for.
Reads(stops, pat, txt) ==
  LET places[p \in 1..(Len(pat) + 1)] ==
        IF p > Len(pat) THEN {Len(txt) + 1}
        ELSE IF pat[p] = "*"
        THEN {t \in 1..(Len(txt) + 1) :
                \E u \in places[p + 1] : t <= u /\ \A i \in stops : i < t \/ u <= i}
        ELSE {t \in 1..Len(txt) : Fits(pat[p], txt[t]) /\ t + 1 \in places[p + 1]}
  IN  1 \in places[1]

\* What a pattern means by its comment (file_transport.rs 518): a star stops at a slash.
Means(pat, txt) == Reads(Slashes(txt), pat, txt)

\* How the scan takes it: a star goes across.
MeansAcross(pat, txt) == Reads({}, pat, txt)

\* Going back to the last star only is enough: the scan accepts every text the pattern
\* means, and no other without a slash. (Of those with a slash it accepts too many, where
\* a star would have to stop at it.)
ScanIsComplete(c) ==
  /\ Means(c.pattern, c.text) => GlobMatches(c.pattern, c.text)
  /\ GlobMatches(c.pattern, c.text) /\ Slashes(c.text) = {} => Means(c.pattern, c.text)

\* A path with wildcards in its last part selects files that are there and just those of
\* its directory whose names it means, or, with a double star, of the directories below;
\* there also some whose path below the directory fits only with a star across a slash.
\* A transport that lists no directories sees the top one only.
SelectsWhatIsThere(c) ==
  LET path  == c.dir \o c.stars \o c.name
      deep  == c.stars # <<>> \/ c.name = <<"*", "*">>
      top   == IF c.dir = <<>> THEN <<".">> ELSE SubSeq(c.dir, 1, Len(c.dir) - 1)
      found == ResolveGlob(c.files, path, c.lists_dirs)
      named(f)  == Means(c.name, Name(f))
      across(f) == MeansAcross(c.name, SubSeq(f, Len(c.dir) + 1, Len(f)))
  IN  /\ found \subseteq c.files
      /\ \A f \in c.files :
           IF deep /\ c.lists_dirs
           THEN /\ IsPrefix(c.dir, f) /\ named(f) => f \in found
                /\ f \in found => IsPrefix(c.dir, f) /\ (named(f) \/ across(f))
           ELSE f \in found <=> Dir(f) = top /\ named(f)
=============================================================================
