----------------------------- MODULE ModuleTree -----------------------------
(***************************************************************************)
(* module-tree.ts: the trie that maps the segments of a URL to route       *)
(* modules, as operators on a tree value.  A path is the sequence of       *)
(* segments that url.split("/").slice(1) gives, so that "/" is <<"">>; a   *)
(* module is the set of its exports.  A segment that begins with a brace   *)
(* is wild in the tree, and only one that ends with a brace too is bound   *)
(* by matchPattern(): {name}.json is wild and not braced.  A variable goes *)
(* by its segment: the braces of {name} are stripped in both, to one name, *)
(* and what is not braced keeps its text as its name.                      *)
(*                                                                         *)
(* The nested maps are kept flat, each in the order in which its entries   *)
(* were made: a directory has the lower-case key of its path and the       *)
(* spelling it was first given, a file the key of its directory and its    *)
(* name as it was written.                                                 *)
(***************************************************************************)
EXTENDS Naturals, Sequences, SequencesExt, TLC

CONSTANTS
    WildSegment,    \* the segments that begin with a brace
    BracedSegment,  \* those of the form {name}
    LowerCase       \* segment or export |-> its lower-case spelling

ASSUME BracesAssumption == BracedSegment \subseteq WildSegment

NoSegment == ""     \* what stands after the slash of "/"

NewTree == [directories |-> <<>>, files |-> <<>>]

IsWildcard(segment) == segment \in WildSegment
IsBraced(segment) == segment \in BracedSegment

KeyOf(path) == [i \in DOMAIN path |-> LowerCase[path[i]]]

IsDirectory(directories, key) == \E i \in DOMAIN directories : directories[i].key = key

\* What there is not yet below the deepest directory of a path is made.
PutDirectory(directories, path) ==
    LET Ancestor(depth) == SubSeq(KeyOf(path), 1, depth)
        deepest == Max({0} \cup {depth \in 1 .. Len(path) - 1 :
                                   IsDirectory(directories, Ancestor(depth))})
    IN directories \o [i \in 1 .. Len(path) - 1 - deepest |->
                         [key |-> Ancestor(deepest + i), rawName |-> path[deepest + i]]]

\* A file that is set again keeps its place in the map.
PutFile(files, file) ==
    LET Same(f) == f.directory = file.directory /\ f.rawName = file.rawName
        at == {i \in DOMAIN files : Same(files[i])}
    IN IF at = {} THEN Append(files, file)
       ELSE [i \in DOMAIN files |-> IF i \in at THEN file ELSE files[i]]

AddModule(tree, path, module) ==
    [directories |-> PutDirectory(tree.directories, path),
     files |-> PutFile(tree.files, [directory |-> KeyOf(Front(path)),
                                    rawName |-> Last(path),
                                    module |-> module])]

\* The name is looked up in lower case, and no directory is ever removed.
RemoveModule(tree, path) ==
    LET at == {i \in DOMAIN tree.files : /\ tree.files[i].directory = KeyOf(Front(path))
                                         /\ tree.files[i].rawName = LowerCase[Last(path)]}
    IN IF at = {} THEN tree ELSE [tree EXCEPT !.files = RemoveAt(@, Min(at))]

-----------------------------------------------------------------------------
(* Matching a URL.                                                         *)

NoMatch == [module |-> {}, ambiguous |-> FALSE,
            matchedPath |-> <<>>, pathVariables |-> <<>>]

\* One slash at the end of a URL is ignored.
WithoutLastSlash(url) ==
    IF Len(url) > 1 /\ Last(url) = NoSegment THEN Front(url) ELSE url

\* The files of a directory that have a name, in any case, by their places.
FilesNamed(tree, key, name) ==
    {i \in DOMAIN tree.files : /\ tree.files[i].directory = key
                               /\ LowerCase[tree.files[i].rawName] = LowerCase[name]}

\* buildMatch(): a file of the segment's name wins, whatever methods it has;
\* then the wildcards that define the method, of which there should be one.
\* normalizedSegment() answers "" when no name fits, which is the name of
\* the file that was registered for "/".
BuildMatch(tree, key, segment, method) ==
    LET named == FilesNamed(tree, key, segment)
        exact == IF named # {} THEN named ELSE FilesNamed(tree, key, NoSegment)
        literal == exact # {} /\ ~ IsWildcard(tree.files[Min(exact)].rawName)
        wild == {i \in DOMAIN tree.files : /\ tree.files[i].directory = key
                                           /\ IsWildcard(tree.files[i].rawName)
                                           /\ method \in tree.files[i].module}
        several == \E i, j \in wild : i # j
    IN IF exact = {} \/ (~ literal /\ several) THEN wild ELSE {Min(exact)}

Place(tree, key) ==
    CHOOSE i \in DOMAIN tree.directories : tree.directories[i].key = key
RawName(tree, key) == tree.directories[Place(tree, key)].rawName

\* Fault: wildcard directories are entered before the one of the name.
EntersWild(tree, key, segment) ==
    LET named == Append(Front(key), LowerCase[segment])
        IsWild(d) == Len(d.key) = Len(key) /\ IsPrefix(Front(key), d.key) /\ IsWildcard(d.rawName)
    IN /\ IsDirectory(tree.directories, key)
       /\ IF \E d \in ToSet(tree.directories) : IsWild(d) THEN IsWildcard(RawName(tree, key))
          ELSE key = named

\* One step of matchWithinDirectory(): the directory of the segment's name is
\* entered alone, and only when there is none, every wildcard directory.
Enters(tree, key, segment) ==
    LET named == Append(Front(key), LowerCase[segment])
    IN /\ IsDirectory(tree.directories, key)
       /\ IF IsDirectory(tree.directories, named) THEN key = named
          ELSE IsWildcard(RawName(tree, key))

\* A directory is reached when the walk enters each on the way to it.
Reached(tree, key, path) ==
    /\ Len(key) = Len(path) - 1
    /\ \A depth \in DOMAIN key : Enters(tree, SubSeq(key, 1, depth), path[depth])

\* What the walk finds, in all directories that it reaches.
Found(tree, path, method) ==
    {i \in DOMAIN tree.files : LET key == tree.files[i].directory
                               IN /\ Reached(tree, key, path)
                                  /\ i \in BuildMatch(tree, key, Last(path), method)}

\* The maps are walked in the order in which their entries were made.
Order(tree, i) ==
    LET key == tree.files[i].directory
    IN Append([depth \in DOMAIN key |-> Place(tree, SubSeq(key, 1, depth))], i)
Before(order, other) ==
    \E n \in DOMAIN order : /\ order[n] < other[n]
                            /\ \A m \in 1 .. n - 1 : order[m] = other[m]
First(tree, found) ==
    CHOOSE i \in found : \A j \in found : ~ Before(Order(tree, j), Order(tree, i))

\* Of several bindings of a name the last one counts.
Bindings(path, pattern, bound) ==
    [name \in {pattern[n] : n \in bound} |-> path[Max({n \in bound : pattern[n] = name})]]

\* The match of a file: a directory that was entered by its name is spelled
\* as in the URL, and every other one binds its segment.
MatchOf(tree, i, path, ambiguous) ==
    LET file == tree.files[i]
        ByName(n) == IF n = Len(path) THEN ~ IsWildcard(file.rawName)
                     ELSE file.directory[n] = LowerCase[path[n]]
        matched == [n \in DOMAIN path |->
                      CASE n = Len(path) -> file.rawName
                        [] n # Len(path) /\ ByName(n) -> path[n]
                        [] OTHER -> RawName(tree, SubSeq(file.directory, 1, n))]
    IN [module |-> file.module, ambiguous |-> ambiguous, matchedPath |-> matched,
        pathVariables |-> Bindings(path, matched, {n \in DOMAIN path : ~ ByName(n)})]

Match(tree, url, method) ==
    LET path == WithoutLastSlash(url)
        found == Found(tree, path, method)
        first == First(tree, found)
    IN IF found = {} THEN NoMatch ELSE MatchOf(tree, first, path, found # {first})

\* Fault: the leading slash of the URL is counted as a segment.
SegmentBefore(url, i) == IF i - 1 \in DOMAIN url THEN url[i - 1] ELSE NoSegment

SegmentAt(url, i) == IF i \in DOMAIN url THEN url[i] ELSE NoSegment

\* matchPattern(): the file of exactly this pattern, and the variables in
\* braces by their positions in the URL.
MatchPattern(tree, url, pattern) ==
    LET named == FilesNamed(tree, KeyOf(Front(pattern)), Last(pattern))
        values == [i \in DOMAIN pattern |-> SegmentAt(url, i)]
    IN IF named = {} THEN NoMatch
       ELSE [module |-> tree.files[Min(named)].module, ambiguous |-> FALSE, matchedPath |-> pattern,
             pathVariables |-> Bindings(values, pattern, {i \in DOMAIN pattern : IsBraced(pattern[i])})]

\* The routes getter: every file with the spelling of its directories.
PathOf(tree, file) ==
    LET key == file.directory
    IN Append([n \in DOMAIN key |-> RawName(tree, SubSeq(key, 1, n))], file.rawName)
Routes(tree) == {[path |-> PathOf(tree, f), module |-> f.module] : f \in ToSet(tree.files)}
=============================================================================
