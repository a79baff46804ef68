----------------------------- MODULE FileSelect -----------------------------
(***************************************************************************)
(* The dialog that asks for a file (xdialogs/stddlg.c): a line of text     *)
(* with a directory and a pattern, and the lists of directories and files. *)
(* The lists are read when the text is taken over (do_filter); the text    *)
(* can be edited at any time and the lists then show another directory.    *)
(* Text is a sequence of characters, since paths are cleaned one by one.   *)
(***************************************************************************)
EXTENDS Integers, Sequences, FiniteSets, SequencesExt

CONSTANTS Cwd,          \* the working directory, a sequence of names
          Dirs,         \* the directories there are, sequences of names
          Files,        \* the files there are, sequences of names
          Signs,        \* the characters there are
          Texts         \* what can be typed

VARIABLES text,         \* cur_pattern
          dir,          \* cur_dir_name
          listed,       \* dir_list and file_list, as sets of names
          open,         \* the dialog is running
          answer        \* the path that was returned, or Nothing

vars == <<text, dir, listed, open, answer>>

Slash == "/"
Dot == "."
Star == "*"
Nothing == <<>>

-----------------------------------------------------------------------------
\* A name is not empty, has no slash and is not one of the two that mean the
\* directory itself and the one above it.  End is what is read at the end of
\* a text.
End == "end"
Up == <<Dot, Dot>>
Plain == Signs \ {Slash}
Name == Seq(Plain) \ {<<>>, <<Dot>>, Up}

FileSelectAssumption ==
  /\ {Slash, Dot, Star} \subseteq Signs /\ End \notin Signs
  /\ Dirs \subseteq Seq(Name) /\ Files \subseteq Seq(Name) /\ Texts \subseteq Seq(Signs)
  /\ Cwd \in Dirs /\ <<>> \in Dirs
  /\ \A d \in Dirs \cup Files : d # <<>> => Front(d) \in Dirs

\* The way a path goes through the file system: after its first i characters
\* it has come to place and read a part of a name
Absolute(s) == s # <<>> /\ s[1] = Slash
Enter(place, n) ==
  IF n \in {<<>>, <<Dot>>} THEN place
  ELSE IF n # Up THEN Append(place, n)
  ELSE IF place = <<>> THEN <<>> ELSE Front(place)
Onward(w, c) == IF c = Slash THEN [place |-> Enter(w.place, w.name), name |-> <<>>]
                             ELSE [place |-> w.place, name |-> Append(w.name, c)]
Way(s) ==
  LET way[i \in 0 .. Len(s)] ==
        IF i = 0 THEN [place |-> IF Absolute(s) THEN <<>> ELSE Cwd, name |-> <<>>]
        ELSE Onward(way[i - 1], s[i])
  IN way
PlaceAt(s, i) == Enter(Way(s)[i].place, Way(s)[i].name)
Resolve(s) == PlaceAt(s, Len(s))
\* stat finds a directory: every step of the way is one
IsDir(s) == s # <<>> /\ \A i \in 1 .. Len(s) : (i = Len(s) \/ s[i] = Slash) => PlaceAt(s, i) \in Dirs
PathText(place) ==
  LET upto[i \in 0 .. Len(place)] == IF i = 0 THEN <<Slash>> ELSE upto[i - 1] \o Append(place[i], Slash)
  IN upto[Len(place)]

-----------------------------------------------------------------------------
PutSlash(s) == IF s # <<>> /\ Last(s) # Slash THEN Append(s, Slash) ELSE s

\* canonize_path: a turn of its loop takes s at p.at to the end of p.buf
At(s, i) == IF i <= Len(s) THEN s[i] ELSE End
EndsName(s, i) == At(s, i) \in {Slash, End}
After(s, i) == IF At(s, i) = Slash THEN i + 1 ELSE i
\* Mutant of Back: The slash at the end of buf is taken for the one before the name.
BackToSelf(buf) == LET slashes == {i \in 1 .. Len(buf) : buf[i] = Slash}
                   IN IF slashes = {} THEN <<Slash>> ELSE SubSeq(buf, 1, CHOOSE m \in slashes : \A i \in slashes : i <= m)

\* the last slash before the last character of buf
Back(buf) == LET slashes == {i \in 1 .. (Len(buf) - 1) : buf[i] = Slash}
             IN IF slashes = {} THEN <<Slash>> ELSE SubSeq(buf, 1, CHOOSE m \in slashes : \A i \in slashes : i <= m)
CanonizeTurn(s, p) ==
  LET i == p.at
      starts == i = 1 \/ At(s, i - 1) = Slash
      up == starts /\ At(s, i) = Dot /\ At(s, i + 1) = Dot /\ EndsName(s, i + 2)
      here == starts /\ At(s, i) = Dot /\ EndsName(s, i + 1)
  IN CASE i > Len(s) -> p
       [] up -> [at |-> After(s, i + 2), buf |-> Back(p.buf)]
       [] ~ up /\ here -> [p EXCEPT !.at = After(s, i + 1)]
       [] i > 1 /\ starts /\ At(s, i) = Slash -> [p EXCEPT !.at = i + 1]
       [] OTHER -> [at |-> i + 1, buf |-> Append(p.buf, At(s, i))]
CanonizePath(s) ==
  LET turn[k \in 0 .. Len(s)] ==
        IF k = 0 THEN [at |-> 1, buf |-> IF Absolute(s) THEN <<>> ELSE PathText(Cwd)]
        ELSE CanonizeTurn(s, turn[k - 1])
  IN turn[Len(s)].buf

\* split_path, on a path that is absolute
LastSlash(s) == CHOOSE i \in DOMAIN s : s[i] = Slash /\ \A j \in DOMAIN s : s[j] = Slash => j <= i
DirPart(s) == IF IsDir(s) THEN s ELSE SubSeq(s, 1, LastSlash(s))
FilePart(s) ==
  IF IsDir(s) THEN <<>>
  ELSE IF \E i \in DOMAIN s : s[i] = Slash THEN SubSeq(s, LastSlash(s) + 1, Len(s)) ELSE s

ValidFileName(s) == ~ IsDir(s) /\ \A i \in DOMAIN s : s[i] # Star

\* fnmatch, for patterns whose only wildcard is a final star
Matches(patt, n) == IF patt # <<>> /\ Last(patt) = Star
                    THEN IsPrefix(Front(patt), n) /\ (n[1] = Dot => Len(patt) > 1) ELSE patt = n
NamesIn(places, d) == {Last(p) : p \in {q \in places : q # <<>> /\ Front(q) = d}}
Nobody == [dirs |-> {}, files |-> {}]
ReadDir(d, patt) ==
  IF Resolve(d) \notin Dirs THEN Nobody
  ELSE [dirs |-> NamesIn(Dirs, Resolve(d)) \cup {<<Dot>>, Up},
        files |-> {n \in NamesIn(Files, Resolve(d)) : Matches(patt, n)}]

\* Mutant of Filter: The lists are read from the directory that was shown.
FilterLate(t) ==
  LET s == CanonizePath(t)
      d == PutSlash(DirPart(s))
      patt == IF FilePart(s) = <<>> THEN <<Star>> ELSE FilePart(s)
  IN /\ dir' = d
     /\ text' = d \o patt
     /\ listed' = ReadDir(dir, patt)

Filter(t) ==
  LET s == CanonizePath(t)
      d == PutSlash(DirPart(s))
      patt == IF FilePart(s) = <<>> THEN <<Star>> ELSE FilePart(s)
  IN /\ dir' = d
     /\ text' = d \o patt
     /\ listed' = ReadDir(d, patt)

-----------------------------------------------------------------------------
\* file_select, with the file part of its pattern
Init ==
  /\ open = TRUE /\ answer = Nothing
  /\ LET d == PutSlash(PathText(Cwd))
     IN dir = d /\ text = d \o <<Star>> /\ listed = ReadDir(d, <<Star>>)

Type ==
  /\ open
  /\ text' \in Texts
  /\ UNCHANGED <<dir, listed, open, answer>>

\* Return in the text and the OK button
Accept ==
  /\ open
  /\ IF ValidFileName(text)
     THEN open' = FALSE /\ answer' = text /\ UNCHANGED <<text, dir, listed>>
     ELSE Filter(text) /\ UNCHANGED <<open, answer>>

PickFile ==
  /\ open
  /\ \E n \in listed.files : text' = PutSlash(dir) \o n
  /\ open' = FALSE /\ answer' = text'
  /\ UNCHANGED <<dir, listed>>

PickDir ==
  /\ open
  /\ \E n \in listed.dirs : Filter(PutSlash(dir) \o n \o <<Slash>> \o FilePart(text))
  /\ UNCHANGED <<open, answer>>

Cancel == open /\ open' = FALSE /\ UNCHANGED <<text, dir, listed, answer>>

Next == Type \/ Accept \/ PickFile \/ PickDir \/ Cancel
Spec == Init /\ [][Next]_vars

-----------------------------------------------------------------------------
\* The directory above the lists is written without detours, the lists are
\* read from it, and a file that was picked from a list is there.
Straight == dir = PathText(Resolve(dir))
ListedThere == /\ \A n \in listed.dirs \ {<<Dot>>, Up} : Append(Resolve(dir), n) \in Dirs
               /\ \A n \in listed.files : Append(Resolve(dir), n) \in Files
FilesAgree == Straight /\ ListedThere

\* Taking over a text shows the directory it names: the one it is, or else
\* the one before its last name.
Named(t) == LET last == Way(t)[Len(t)]
            IN IF Resolve(t) \in Dirs \/ last.name \in {<<Dot>>, Up} THEN Resolve(t) ELSE last.place
GoesThereStep ==
  Accept /\ open' => Resolve(dir') = Named(text)
GoesThere == [][GoesThereStep]_vars

=============================================================================
