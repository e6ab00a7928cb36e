---------------------------- MODULE PathStrings ----------------------------
(***************************************************************************)
(* Path strings, character by character (common/util.cc), and what          *)
(* ClientProcess makes of the string a driver passes to a call: the walk of  *)
(* lookup, the string and the prefixes findroute looks for.  The other       *)
(* modules have Paths instead, where a path is its names; what that leaves   *)
(* out is what the properties below are about.  The state is the string of   *)
(* the call in progress, empty between two calls.                           *)
(***************************************************************************)
EXTENDS Integers, Sequences, SequencesExt, FiniteSetsExt, TLC

CONSTANTS
  Letters,     \* the characters that are neither "/" nor "."
  MaxLength    \* of a string (a bound)

ASSUME LettersAssumption == Letters \subseteq STRING /\ Letters \cap {"/", "."} = {}
ASSUME MaxLengthAssumption == MaxLength \in Nat

VARIABLE path

Chars == Letters \cup {"/", "."}
Slash == <<"/">>
Dot == <<".">>
DotDot == <<".", ".">>

\* findAll(str, "/").
FindAll(s) == SetToSortSeq({i \in DOMAIN s : s[i] = "/"}, <)

\* substr(0, *it) for the slash at position i.
Before(s, i) == SubSeq(s, 1, i - 1)

\* What stands between the slashes, and split: without the empty pieces.
Pieces(s) ==
  LET ends == <<0>> \o FindAll(s) \o <<Len(s) + 1>>
  IN [k \in 1 .. Len(ends) - 1 |-> SubSeq(s, ends[k] + 1, ends[k + 1] - 1)]
Split(s) == SelectSeq(Pieces(s), LAMBDA n : n # <<>>)

\* split_path: ".." takes the name before it away, if there is one.
SplitPath(s) ==
  LET Next(names, n) == IF n = Dot \/ (n = DotDot /\ names = <<>>) THEN names
                        ELSE IF n = DotDot THEN Front(names) ELSE Append(names, n)
  IN FoldLeft(Next, <<>>, Split(s))

FilenameValid(n) == FindAll(n) = <<>>

\* find_last_of "/", with 0 for npos.
LastSlash(s) == Max({0} \cup {i \in DOMAIN s : s[i] = "/"})

HasName(s) == \E i \in DOMAIN s : s[i] # "/"
EndsWithSlash(s) == s # <<>> /\ Last(s) = "/"

\* dirname takes all slashes off the end.  (Of a string of nothing but slashes
\* it asks the empty string for its last character: undefined, not asked here.)
DirName(s) ==
  LET t == SubSeq(s, 1, Max({i \in DOMAIN s : s[i] # "/"}))
  IN IF LastSlash(t) <= 1 THEN Slash ELSE Before(t, LastSlash(t))

\* Slip: all slashes are taken off the end, as in dirname.
BaseNameAllSlashes(s) ==
  LET t == SubSeq(s, 1, Max({0} \cup {i \in DOMAIN s : s[i] # "/"}))
  IN SubSeq(t, LastSlash(t) + 1, Len(t))

\* Slip: from the last slash on.
BaseNameWithSlash(s) ==
  LET t == IF EndsWithSlash(s) THEN Front(s) ELSE s
  IN SubSeq(t, Max({1, LastSlash(t)}), Len(t))

\* basename takes one.
BaseName(s) ==
  LET t == IF EndsWithSlash(s) THEN Front(s) ELSE s
  IN SubSeq(t, LastSlash(t) + 1, Len(t))

\* fullpath + "/" + name, as the MDS names the entries of a directory.
Join(s, n) == s \o Slash \o n
-----------------------------------------------------------------------------
(***************************************************************************)
(* ClientProcess, for a string that is not empty.                           *)
(***************************************************************************)
Absolute(s) == IF s[1] = "/" THEN s ELSE Slash \o s

\* The prefixes that end before a slash, but for the first slash.
PrefixesOf(s) == [k \in 1 .. Len(FindAll(s)) - 1 |-> Before(s, FindAll(s)[k + 1])]

\* Slip: the search for slashes starts behind the first directory's.
WalkSkipping(s) ==
  LET prefixes == PrefixesOf(Absolute(s))
  IN <<Slash>> \o SubSeq(prefixes, 2, Len(prefixes)) \o <<Absolute(s)>>

\* lookup: the strings that are looked up one after the other.
Walk(s) == <<Slash>> \o PrefixesOf(Absolute(s)) \o <<Absolute(s)>>

\* findroute makes its own copy of the string absolute and takes the slashes
\* off its end, the first one excepted.
Normalised(s) ==
  LET a == Absolute(s)
  IN SubSeq(a, 1, Max({1} \cup {i \in DOMAIN a : a[i] # "/"}))

\* Slip: the shortest prefix first.
RouteSearchShortest(s) ==
  LET n == Normalised(s) IN <<n>> \o PrefixesOf(n) \o <<Slash>>

\* The keys routetable is searched for, one after the other.
RouteSearch(s) ==
  LET n == Normalised(s) IN <<n>> \o Reverse(PrefixesOf(n)) \o <<Slash>>
-----------------------------------------------------------------------------
Init == path = <<>>

Call(s) == path = <<>> /\ path' = s
Return == path # <<>> /\ path' = <<>>

Next == (\E s \in BoundedSeq(Chars, MaxLength) : Call(s)) \/ Return

Spec == Init /\ [][Next]_path
-----------------------------------------------------------------------------
(***************************************************************************)
(* Properties.                                                             *)
(***************************************************************************)
\* Where a string leads, and where an entry that it is to create is put: below
\* dirname, under the name basename.
Leads(s) == SplitPath(s)
Created(s) == SplitPath(DirName(s)) \o <<BaseName(s)>>

\* At most one slash at the end, and a name before it that is no dot or two.
WellFormed(s) ==
  /\ ~EndsWithSlash(s) \/ ~EndsWithSlash(Front(s))
  /\ Last(Split(s)) \notin {Dot, DotDot}

\* mknod and mkdir look up dirname(path) and create basename(path) in it, and
\* which_child asks for the index of that entry; everybody else looks up path.
\* They mean the same entry for the well-formed strings and for no other: of
\* two slashes at the end dirname takes both and basename one, and the entry
\* "/a//" creates in the root has no name.  The name never has a slash.
CreatedIsFound ==
  HasName(path) =>
    /\ Created(path) = Leads(path) <=> WellFormed(path)
    /\ FilenameValid(BaseName(path))

\* The strings a driver of the repository passes, and the paths they stand for
\* in the other modules.
Canonical(s) ==
  \/ s = Slash
  \/ /\ s # <<>> /\ s[1] = "/"
     /\ \A k \in 2 .. Len(Pieces(s)) : Pieces(s)[k] \notin {<<>>, Dot, DotDot}

NameOf(n) == IF n = <<>> THEN "" ELSE ToString(n)
NamesOf(names) == [k \in DOMAIN names |-> NameOf(names[k])]
PathOf(s) == IF s \in {<<>>, Slash} THEN <<>> ELSE NamesOf(Tail(Pieces(s)))
PathsOf(strings) == [k \in DOMAIN strings |-> PathOf(strings[k])]

P == INSTANCE Paths

\* The string and Paths agree on what it names, its directory and its name.
Agree(s) ==
  /\ NamesOf(SplitPath(s)) = P!SplitPath(PathOf(s))
  /\ HasName(s) => /\ PathOf(DirName(s)) = P!DirName(PathOf(s))
                   /\ NameOf(BaseName(s)) = P!BaseName(PathOf(s))

\* On canonical strings, and on those an MDS forms of one and an entry's name
\* ("//a" among them), the operators of Paths are the functions of util.cc,
\* and the client visits the paths they say.
CanonicalPathsAgree ==
  Canonical(path) =>
    /\ Agree(path)
    /\ PathsOf(Walk(path)) = P!Visited(PathOf(path))
    /\ \A ch \in Letters :
         /\ PathOf(Join(path, <<ch>>)) = P!Join(PathOf(path), NameOf(<<ch>>))
         /\ Agree(Join(path, <<ch>>))

\* The route is looked for, and with hashing computed, for another string than
\* the one the request carries and the MDS hashes; but that string leads to
\* the same inode, and the keys that are searched are, from the longest to the
\* shortest, the strings the walk of that path has learned routes for.
RouteKeepsMeaning ==
  path # <<>> =>
    /\ Leads(Normalised(path)) = Leads(path)
    /\ Normalised(Normalised(path)) = Normalised(path)
    /\ RouteSearch(path) = Reverse(Walk(Normalised(path)))

\* Some ".." takes away a name that was there.
Undoes(s) == Len(SplitPath(s)) < Len(SelectSeq(Split(s), LAMBDA n : n \notin {Dot, DotDot}))

\* A walk asks for every directory above what the path leads to, from the root
\* downwards, and then for that; and for nothing else, unless a ".." takes a
\* name away: for "/a/../b" the client wants "/a" to exist, which
\* FileSystem::lookup, that splits the string first, does not.
WalkMeetsAncestors ==
  path # <<>> =>
    LET met       == {Leads(Walk(path)[k]) : k \in DOMAIN Walk(path)}
        ancestors == {SubSeq(Leads(path), 1, k) : k \in 0 .. Len(Leads(path))}
    IN /\ Leads(Last(Walk(path))) = Leads(path)
       /\ ancestors \subseteq met
       /\ ~Undoes(path) => met = ancestors
=============================================================================
