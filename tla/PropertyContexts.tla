-------------------------- MODULE PropertyContexts ---------------------------
(***************************************************************************)
(* Which context, and so which area, a property name belongs to.            *)
(*                                                                         *)
(* ContextsSplit reads property_contexts files line by line into a list of   *)
(* prefixes and takes the first entry that matches; ContextsSerialized       *)
(* walks the trie that init serialised into property_info, searching         *)
(* sorted children and taking prefix and exact entries on the way.  Both are *)
(* compared with one reference definition: an exact entry, else the longest   *)
(* prefix.                                                                   *)
(*                                                                         *)
(* A name is a sequence of characters in the order of their codes: Star is   *)
(* '*', Dot is '.', the others are letters.                                  *)
(***************************************************************************)
EXTENDS Integers, Sequences, SequencesExt, FiniteSets

CONSTANTS
    Lines,       \* what a line may be: [words : Seq of names, context, exact]
    Lookups,     \* the names looked up
    FileSets,    \* which of the property_contexts files may exist
    MaxLines     \* bound on the lines of a file

Star == -1
Dot == 0
Ctl == <<9, 8, 7, Dot>>    \* "ctl."
None == "none"

VARIABLES
    files,       \* the property_contexts files still to be read
    lines,       \* history: the lines read so far
    prefixes,    \* prefixes_
    contexts     \* contexts_, newest first

vars == <<files, lines, prefixes, contexts>>

\* InitializeProperties: the file of an old release alone, or the platform's file and the
\* vendor's (or the one that came before it), from /system and /vendor or else from /.
FilesRead(exists) ==
    LET vendor(v, old) == IF v \in exists THEN <<v>> ELSE SelectSeq(<<old>>, LAMBDA f : f \in exists)
    IN  CASE "contexts" \in exists -> <<"contexts">>
          [] "contexts" \notin exists /\ "system_plat" \in exists ->
               <<"system_plat">> \o vendor("vendor_vendor", "vendor_nonplat")
          [] exists \cap {"contexts", "system_plat"} = {} /\ "plat" \in exists ->
               <<"plat">> \o vendor("vendor", "nonplat")
          [] OTHER -> <<>>

Init ==
    /\ files \in {FilesRead(e) : e \in FileSets}
    /\ lines = <<>> /\ prefixes = <<>> /\ contexts = <<>>

-----------------------------------------------------------------------------
(* ContextsSplit *)

\* Before the first entry that is shorter or the wildcard.
ListAddAfterLen(list, prefix, context) ==
    LET later(e) == Len(e.prefix) < Len(prefix) \/ e.prefix[1] = Star
        at == SelectInSeq(list, later)
    IN  InsertAt(list, IF at = 0 THEN Len(list) + 1 ELSE at, [prefix |-> prefix, context |-> context])

\* A line is used if it has a prefix and a context, and the prefix is not one of ctl.
Used(line) == Len(line.words) >= 2 /\ ~IsPrefix(Ctl, line.words[1])

\* A context that is not listed yet is put in front.
AddContext(context) == IF Contains(contexts, context) THEN contexts ELSE <<context>> \o contexts

\* One turn of the loop of InitializePropertiesFromFile.
ReadLine(line) ==
    /\ files # <<>> /\ Len(lines) < MaxLines
    /\ lines' = Append(lines, line)
    /\ IF Used(line)
       THEN /\ prefixes' = ListAddAfterLen(prefixes, line.words[1], line.context)
            /\ contexts' = AddContext(line.context)
       ELSE UNCHANGED <<prefixes, contexts>>
    /\ UNCHANGED files

\* The end of a file: on to the next one.
EndOfFile ==
    /\ files # <<>>
    /\ files' = Tail(files)
    /\ UNCHANGED <<lines, prefixes, contexts>>

\* ListFind over prefixes_: the first entry that matches.
GetPropAreaForName(name) ==
    LET matches(e) == e.prefix[1] = Star \/ IsPrefix(e.prefix, name)
        at == SelectInSeq(prefixes, matches)
    IN  IF at = 0 THEN None ELSE prefixes[at].context

-----------------------------------------------------------------------------
(* The serialised trie, as init's property service builds it from the same lines *)

\* The tokens of a name, and the name without its first k tokens.
DotsOf(name) == {i \in 1..Len(name) : name[i] = Dot}
TokenEnd(name, k) ==
    CHOOSE i \in DotsOf(name) : Cardinality({j \in DotsOf(name) : j <= i}) = k
Remaining(name, k) == IF k = 0 THEN name ELSE SubSeq(name, TokenEnd(name, k) + 1, Len(name))
Path(name, k) == IF k = 0 THEN <<>> ELSE SubSeq(name, 1, TokenEnd(name, k))

Entries == {line \in ToSet(lines) : Used(line) /\ line.words[1] # <<Star>>}
Word(line) == line.words[1]
Depth(line) == Cardinality(DotsOf(Word(line)))

\* Nodes are named by their path, which ends with a dot; the root is the empty path.
NodeContext(path) ==
    LET here == {line \in ToSet(lines) : /\ Used(line) /\ ~line.exact
                                         /\ Word(line) = IF path = <<>> THEN <<Star>> ELSE path}
    IN  IF here = {} THEN None ELSE (CHOOSE line \in here : TRUE).context

\* Entries of a node, the remaining name of each; prefixes from longest to shortest.
Ends(path, exact) ==
    {line \in Entries : /\ line.exact = exact
                        /\ Path(Word(line), Depth(line)) = path
                        /\ exact \/ Word(line) # path}
EntryName(line) == Remaining(Word(line), Depth(line))
NodePrefixes(path) ==
    SetToSortSeq(Ends(path, FALSE), LAMBDA a, b : Len(Word(a)) > Len(Word(b)))

\* strcmp, and strncmp over the first n characters.
CharAt(s, i) == IF i <= Len(s) THEN s[i] ELSE -9
FirstDiff(s, t, n) == {i \in 1..n : CharAt(s, i) # CharAt(t, i)}
strncmp(s, t, n) ==
    IF FirstDiff(s, t, n) = {} THEN 0
    ELSE LET i == CHOOSE i \in FirstDiff(s, t, n) : \A j \in FirstDiff(s, t, n) : i <= j
         IN  CharAt(s, i) - CharAt(t, i)

\* The children of a node, sorted: the next token of every path below it.
NodeChildren(path) ==
    LET below == {line \in Entries : Len(Word(line)) > Len(path) /\ IsPrefix(path, Word(line))}
        tokens == {SubSeq(Word(l), Len(path) + 1, TokenEnd(Word(l), Cardinality(DotsOf(path)) + 1) - 1) :
                     l \in {l \in below : Depth(l) > Cardinality(DotsOf(path))}}
    IN  SetToSortSeq(tokens, LAMBDA a, b : strncmp(a, b, Len(a) + Len(b)) < 0)

-----------------------------------------------------------------------------
(* PropertyInfoArea *)

\* Fault: the halves are swapped.
Find_Swapped(cmp) ==
    LET n == Len(cmp)
        search[b \in 1..(n + 1), t \in 0..n] ==
            IF t < b THEN 0
            ELSE LET mid == (t + b) \div 2
                 IN  IF cmp[mid] = 0 THEN mid
                     ELSE IF cmp[mid] > 0 THEN search[mid + 1, t]
                     ELSE search[b, mid - 1]
    IN  search[1, n]

\* The binary search over what the comparison says of each element: an index with
\* cmp = 0, or 0 where the code returns -1.
Find(cmp) ==
    LET n == Len(cmp)
        search[b \in 1..(n + 1), t \in 0..n] ==
            IF t < b THEN 0
            ELSE LET mid == (t + b) \div 2
                 IN  IF cmp[mid] = 0 THEN mid
                     ELSE IF cmp[mid] < 0 THEN search[mid + 1, t]
                     ELSE search[b, mid - 1]
    IN  search[1, n]

\* A child that only begins like the token counts as greater.
FindChildForString(path, token) ==
    LET children == NodeChildren(path)
        cmp(i) == LET c == strncmp(children[i], token, Len(token))
                  IN  IF c = 0 /\ Len(children[i]) > Len(token) THEN 1 ELSE c
    IN  Find([i \in 1..Len(children) |-> cmp(i)])

\* The first prefix of the node that the remaining name starts with, if any.
CheckPrefixMatch(path, remaining, context) ==
    LET at == SelectInSeq(NodePrefixes(path), LAMBDA l : IsPrefix(EntryName(l), remaining))
    IN  IF at = 0 THEN context ELSE NodePrefixes(path)[at].context

\* The walk down the trie, one turn of the loop per token, then the exact entries.
GetPropertyInfoIndexes(name) ==
    LET turn(k, context) ==
            CheckPrefixMatch(Path(name, k), Remaining(name, k),
                             IF NodeContext(Path(name, k)) = None THEN context
                             ELSE NodeContext(Path(name, k)))
        more(k) == /\ k < Cardinality(DotsOf(name))
                   /\ FindChildForString(Path(name, k),
                          SubSeq(name, Len(Path(name, k)) + 1, TokenEnd(name, k + 1) - 1)) # 0
        stop == CHOOSE k \in 0..Cardinality(DotsOf(name)) :
                    ~more(k) /\ \A j \in 0..(k - 1) : more(j)
        walk[k \in 0..stop] == turn(k, IF k = 0 THEN None ELSE walk[k - 1])
        exact == {l \in Ends(Path(name, stop), TRUE) : EntryName(l) = Remaining(name, stop)}
    IN  IF exact # {} THEN (CHOOSE l \in exact : TRUE).context
        ELSE CheckPrefixMatch(Path(name, stop), Remaining(name, stop), walk[stop])

-----------------------------------------------------------------------------
Next == EndOfFile \/ \E line \in Lines : ReadLine(line)
Spec == Init /\ [][Next]_vars

(* Properties *)

\* The reference: an exact entry for the name; else the longest entry it starts with;
\* else the wildcard.
Reference(used, name) ==
    LET exact == {l \in used : l.exact /\ Word(l) = name}
        fits == {l \in used : ~l.exact /\ IsPrefix(Word(l), name)}
        stars == {l \in used : Word(l) = <<Star>>}
    IN  IF exact # {} THEN {l.context : l \in exact}
        ELSE IF fits # {}
        THEN {l.context : l \in {l \in fits : \A m \in fits : Len(Word(m)) <= Len(Word(l))}}
        ELSE IF stars # {} THEN {l.context : l \in stars} ELSE {None}

\* The line that decides in the older layout: of equally long prefixes the one read
\* first, of wildcards the one read last.
Deciding(name) ==
    LET fits == {i \in 1..Len(lines) : Used(lines[i]) /\ IsPrefix(Word(lines[i]), name)}
        stars == {i \in 1..Len(lines) : Used(lines[i]) /\ Word(lines[i])[1] = Star}
        Wins(i, j) == \/ Len(Word(lines[i])) > Len(Word(lines[j]))
                      \/ Len(Word(lines[i])) = Len(Word(lines[j])) /\ i <= j
    IN  IF fits # {} THEN lines[CHOOSE i \in fits : \A j \in fits : Wins(i, j)].context
        ELSE IF stars # {} THEN lines[CHOOSE i \in stars : \A j \in stars : i >= j].context
        ELSE None

\* Whatever the order of the lines in the files, the list finds the longest prefix of a
\* name, and the wildcard only when nothing else matches; an entry of the platform's
\* file, read first, is not overridden by the same prefix in the vendor's.
ListFindsLongestPrefix == \A name \in Lookups : GetPropAreaForName(name) = Deciding(name)

\* The walk over the serialised trie, with its binary search among children that share
\* beginnings, gives each name the context of the reference definition.
TrieFindsLongestPrefix ==
    (\A i, j \in 1..Len(lines) :
        Used(lines[i]) /\ Used(lines[j]) /\ Word(lines[i]) = Word(lines[j])
            /\ lines[i].exact = lines[j].exact => i = j)
    => \A name \in Lookups :
         GetPropertyInfoIndexes(name) \in Reference({l \in ToSet(lines) : Used(l)}, name)

\* Each context is listed once, so each has one ContextNode and one mapping, and every
\* entry's context is listed.
ContextsListedOnce ==
    /\ IsInjective(contexts)
    /\ \A i \in 1..Len(prefixes) : Contains(contexts, prefixes[i].context)
    /\ Len(prefixes) = Cardinality({i \in 1..Len(lines) : Used(lines[i])})

\* The three layouts of contexts agree: list and trie find the longest prefix, in a
\* table that has each context once.
FindsLongestPrefix == ListFindsLongestPrefix /\ TrieFindsLongestPrefix /\ ContextsListedOnce
=============================================================================
