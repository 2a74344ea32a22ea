------------------------------ MODULE Paginate ------------------------------
(***************************************************************************)
(* core/listing.rs: one page of a delimited listing, and a client that     *)
(* follows the continuation tokens of s3/mod.rs list_objects_v2 from page  *)
(* to page over an unchanging directory.                                   *)
(*                                                                         *)
(* With the delimiter "/" the page is computed by paginate_slash, whose    *)
(* merge loop is the action MergeStep here; with any other delimiter by    *)
(* paginate, modelled as what it returns.  paginate is also the reference  *)
(* paginate_slash is documented to be equivalent to.                       *)
(***************************************************************************)
EXTENDS KeyOrder, FiniteSets

CONSTANTS FileKeys,     \* the files there may be
          DirKeys,      \* the directories there may be
          MaxEntries,   \* bound: entries of the listing
          Prefixes,     \* the prefixes a client asks for
          Delimiters,   \* one-byte delimiters
          Markers,      \* start_after values of the first request
          PageSizes,    \* max_keys values
          NoMarker      \* None

ASSUME PaginateAssumption ==
  /\ FileKeys \subseteq Key /\ DirKeys \subseteq Key
  /\ IsFiniteSet(FileKeys) /\ IsFiniteSet(DirKeys)
  /\ Prefixes \subseteq Key /\ Delimiters \subseteq Nat
  /\ Markers \subseteq Key \cup {NoMarker}
  /\ PageSizes \subseteq Nat
  /\ NoMarker \notin Key

VARIABLES files, dirs,   \* the listing: its sorted arrays of keys
          query,         \* what the client asks; first is its start_after
          marker,        \* the decoded continuation token, or start_after
          pc,            \* "ask", "merge" (in paginate_slash), "page", "done"
          fi, di,        \* the merge loop's indices
          page,          \* contents, common_prefixes, is_truncated, next_token
          got,           \* the output keys received so far
          backwards      \* a page held a key that was not after all of got

vars == <<files, dirs, query, marker, pc, fi, di, page, got, backwards>>

After(m, key) == m = NoMarker \/ Before(m, key)

Past(key) == After(marker, key)

Elems(s) == {s[i] : i \in 1..Len(s)}

-----------------------------------------------------------------------------
(* paginate.                                                               *)

\* The first place at or after from where key has the delimiter, or 0.
Find(key, delimiter, from) ==
  LET places == {i \in from..Len(key) : key[i] = delimiter}
  IN  IF places = {} THEN 0 ELSE CHOOSE i \in places : \A j \in places : i <= j

\* What list_objects_v2 passes: for "/" the directory's files, otherwise what the
\* flat listing collects after the marker.
Entries == IF query.delimiter = Slash
             THEN Elems(files)
             ELSE {f \in Elems(files) : StartsWith(f, query.prefix) /\ Past(f)}

\* list_to_contents: a matching key with a delimiter in its remainder collapses
\* to the prefix that ends at the first one.
Matching(prefix) == {f \in Entries : StartsWith(f, prefix)}

ContentsOf(prefix, delimiter) ==
  {f \in Matching(prefix) : Find(f, delimiter, Len(prefix) + 1) = 0}

CollapsedFiles(prefix, delimiter) ==
  {Prefix(f, Find(f, delimiter, Len(prefix) + 1)) :
      f \in Matching(prefix) \ ContentsOf(prefix, delimiter)}

\* With "/" the directories are prefixes too, empty ones included.
CollapsedDirs(prefix) ==
  {LET i == Find(d, Slash, Len(prefix) + 1)
   IN  IF i = 0 THEN Output(d) ELSE Prefix(d, i) :
      d \in {d \in Elems(dirs) : StartsWith(d, prefix)}}

CommonPrefixes(prefix, delimiter) ==
  CollapsedFiles(prefix, delimiter)
    \cup (IF delimiter = Slash THEN CollapsedDirs(prefix) ELSE {})

\* What is left after the marker, contents and prefixes interleaved.
Outputs(q) ==
  {k \in ContentsOf(q.prefix, q.delimiter)
           \cup CommonPrefixes(q.prefix, q.delimiter) : Past(k)}

\* The members of S with fewer than n members before them.
Smallest(S, n) == {k \in S : Cardinality({l \in S : Before(l, k)}) < n}

Greatest(S) == CHOOSE k \in S : \A l \in S : l = k \/ Before(l, k)

EmptyPage == [contents |-> {}, prefixes |-> {}, truncated |-> FALSE, token |-> NoMarker]

PageOf(q, out) ==
  LET keys == Smallest(out, q.size)
  IN  IF q.size = 0
        THEN EmptyPage
        ELSE [contents  |-> keys \cap ContentsOf(q.prefix, q.delimiter),
              prefixes  |-> keys \cap CommonPrefixes(q.prefix, q.delimiter),
              truncated |-> keys # out,
              token     |-> IF keys # out THEN Greatest(keys) ELSE NoMarker]

paginate(q) == PageOf(q, Outputs(q))

-----------------------------------------------------------------------------
(* The client and list_objects_v2.                                         *)

\* list_start: the directory part of the prefix, its last slash included.
ListStart(prefix) ==
  LET slashes == {i \in 1..Len(prefix) : prefix[i] = Slash}
  IN  Prefix(prefix, IF slashes = {} THEN 0
                     ELSE CHOOSE i \in slashes : \A j \in slashes : j <= i)

DirectChild(key, start) ==
  StartsWith(key, start) /\ Len(key) > Len(start) /\ Find(key, Slash, Len(start) + 1) = 0

\* "/" works on the children of one directory, the others on the whole subtree.
InScope(q, key) == q.delimiter = Slash => DirectChild(key, ListStart(q.prefix))

Init ==
  /\ query \in [prefix : Prefixes, delimiter : Delimiters, size : PageSizes,
                first : Markers]
  /\ \E F \in SUBSET {f \in FileKeys : InScope(query, f)},
        D \in SUBSET {d \in DirKeys : query.delimiter = Slash /\ InScope(query, d)} :
        /\ F \cap D = {}
        /\ \A f, g \in F : ~StartsWith(g, Output(f))
        /\ Cardinality(F \cup D) <= MaxEntries
        /\ files \in Sorted(F, Cardinality(F), Before)
        /\ dirs \in Sorted(D, Cardinality(D), DirBefore)
  /\ marker = query.first
  /\ pc = "ask"
  /\ fi = 0 /\ di = 0
  /\ page = EmptyPage
  /\ got = {}
  /\ backwards = FALSE

\* Mutant: the marker filters the contents only, not the common prefixes.
AskPaginateUnfiltered ==
  /\ pc = "ask"
  /\ query.delimiter # Slash
  /\ page' = PageOf(query, Outputs(query) \cup CommonPrefixes(query.prefix, query.delimiter))
  /\ pc' = "page"
  /\ UNCHANGED <<files, dirs, query, marker, fi, di, got, backwards>>

\* Any delimiter but "/".
AskPaginate ==
  /\ pc = "ask"
  /\ query.delimiter # Slash
  /\ page' = paginate(query)
  /\ pc' = "page"
  /\ UNCHANGED <<files, dirs, query, marker, fi, di, got, backwards>>

\* paginate_slash up to its loop: the lower bounds (fi and di are the number of
\* entries already behind).
Bound(s, P(_), Q(_)) ==
  LET m == PartitionPoint(s, P)
      n == IF marker = NoMarker THEN 0 ELSE PartitionPoint(s, Q)
  IN  IF m >= n THEN m ELSE n

FirstFile ==
  LET Below(f)  == Before(f, query.prefix)
      Behind(f) == ~Past(f)
  IN  Bound(files, Below, Behind)

FirstDir ==
  LET Below(d)  == cmp_dir_output(d, query.prefix) = "Less"
      Behind(d) == cmp_dir_output(d, marker) # "Greater"
  IN  Bound(dirs, Below, Behind)

AskSlash ==
  /\ pc = "ask"
  /\ query.delimiter = Slash
  /\ page' = EmptyPage
  /\ IF query.size = 0
       THEN pc' = "page" /\ UNCHANGED <<fi, di>>
       ELSE pc' = "merge" /\ fi' = FirstFile /\ di' = FirstDir
  /\ UNCHANGED <<files, dirs, query, marker, got, backwards>>

Count(p) == Cardinality(p.contents) + Cardinality(p.prefixes)

\* Mutant: a file above the prefix range is passed over without leaving it.
SkipFileStays ==
  /\ fi < Len(files)
  /\ ~StartsWith(files[fi + 1], query.prefix)
  /\ fi' = IF Before(query.prefix, files[fi + 1]) THEN fi ELSE fi + 1
  /\ UNCHANGED <<di, page, pc>>

\* Dropping the candidates outside the prefix range: below it one at a time,
\* above it all of them.
SkipFile ==
  /\ fi < Len(files)
  /\ ~StartsWith(files[fi + 1], query.prefix)
  /\ fi' = IF Before(query.prefix, files[fi + 1]) THEN Len(files) ELSE fi + 1
  /\ UNCHANGED <<di, page, pc>>

FileReady == fi < Len(files) => StartsWith(files[fi + 1], query.prefix)

SkipDir ==
  /\ FileReady
  /\ di < Len(dirs)
  /\ ~dir_output_starts_with(dirs[di + 1], query.prefix)
  /\ di' = IF cmp_dir_output(dirs[di + 1], query.prefix) = "Greater"
             THEN Len(dirs) ELSE di + 1
  /\ UNCHANGED <<fi, page, pc>>

DirReady == di < Len(dirs) => dir_output_starts_with(dirs[di + 1], query.prefix)

\* Mutant: the streams are merged by the raw keys.
TakeFileRaw ==
  di = Len(dirs) \/ (fi < Len(files) /\ Before(files[fi + 1], dirs[di + 1]))

TakeFile ==
  \/ di = Len(dirs)
  \/ fi < Len(files) /\ cmp_dir_output(dirs[di + 1], files[fi + 1]) = "Greater"

Take ==
  /\ FileReady /\ DirReady
  /\ fi < Len(files) \/ di < Len(dirs)
  /\ Count(page) < query.size
  /\ IF TakeFile
       THEN /\ page' = [page EXCEPT !.contents = @ \cup {files[fi + 1]},
                                    !.token = files[fi + 1]]
            /\ fi' = fi + 1
            /\ UNCHANGED di
       ELSE /\ page' = [page EXCEPT !.prefixes = @ \cup {Output(dirs[di + 1])},
                                    !.token = Output(dirs[di + 1])]
            /\ di' = di + 1
            /\ UNCHANGED fi
  /\ UNCHANGED pc

\* The loop ends on exhausted streams, or on a full page with something left.
\* Until here page.token held last_key.
LeaveTruncated == fi < Len(files) \/ di < Len(dirs)

Leave ==
  /\ FileReady /\ DirReady
  /\ \/ fi = Len(files) /\ di = Len(dirs)
     \/ Count(page) = query.size
  /\ page' = [page EXCEPT !.truncated = LeaveTruncated,
                          !.token = IF LeaveTruncated THEN @ ELSE NoMarker]
  /\ pc' = "page"
  /\ UNCHANGED <<fi, di>>

MergeStep ==
  /\ pc = "merge"
  /\ SkipFile \/ SkipDir \/ Take \/ Leave
  /\ UNCHANGED <<files, dirs, query, marker, got, backwards>>

Keys(p) == p.contents \cup p.prefixes

\* The client takes the page; with a token it asks for the next one.
Receive ==
  /\ pc = "page"
  /\ got' = got \cup Keys(page)
  /\ backwards' = (backwards \/ \E k \in Keys(page), l \in got : ~Before(l, k))
  /\ pc' = IF page.truncated /\ page.token # NoMarker THEN "ask" ELSE "done"
  /\ marker' = IF page.truncated /\ page.token # NoMarker THEN page.token ELSE marker
  /\ UNCHANGED <<files, dirs, query, fi, di, page>>

Next == AskPaginate \/ AskSlash \/ MergeStep \/ Receive

\* The client keeps asking as long as it is given tokens.
Spec == Init /\ [][Next]_vars /\ WF_vars(Next)
-----------------------------------------------------------------------------
\* "Equivalent to paginate with delimiter = Some("/") for the inputs the S3 layer
\* passes": contents, prefixes, truncation and token, on every page.
SlashAgrees == pc = "page" /\ query.delimiter = Slash => page = paginate(query)

\* What S3 lists for the query without a page limit: a matching key is cut after
\* the first delimiter behind the prefix, if there is one.
AllOutputs ==
  LET keys    == Elems(files) \cup {Output(d) : d \in Elems(dirs)}
      Cuts(x) == {i \in (Len(query.prefix) + 1)..Len(x) : x[i] = query.delimiter}
  IN  {x \in keys : StartsWith(x, query.prefix) /\ Cuts(x) = {}}
        \cup UNION {{Prefix(x, i) : i \in {i \in Cuts(x) : \A j \in Cuts(x) : i <= j}} :
                      x \in {x \in keys : StartsWith(x, query.prefix)}}

\* Following the tokens delivers every content and every common prefix exactly
\* once and in order, wherever the pages are cut; a truncated page, and never one
\* of size 0, has a token to go on with (the debug_assert of list_objects_v2).
PagesPartitionTheListing ==
  /\ ~backwards
  /\ pc = "page" /\ page.truncated => page.token # NoMarker
  /\ pc = "done" /\ query.size > 0 => got = {k \in AllOutputs : After(query.first, k)}

\* Comparing, and prefix matching, without building the output keys gives what
\* building them would give (cmp_dir_output, cmp_dir_keys, cmp_file_dir,
\* dir_output_starts_with).
ComparisonsExact ==
  /\ \A d \in Elems(dirs) : marker # NoMarker =>
       /\ cmp_dir_output(d, marker) = Cmp(Output(d), marker)
       /\ cmp_file_dir(marker, d) = Cmp(marker, Output(d))
       /\ dir_output_starts_with(d, marker) <=> StartsWith(Output(d), marker)
  /\ \A d, e \in Elems(dirs) : cmp_dir_keys(d, e) = Cmp(Output(d), Output(e))

\* A directory is pruned after a marker exactly if all it may hold sorts before
\* the marker and the marker is not inside it (dir_children_all_before), and
\* resuming a sorted array of directories in its middle passes over exactly those
\* (dirs_start_after): the one the marker is in is kept.
PruningIsExact ==
  marker # NoMarker =>
    /\ \A d \in Elems(dirs) :
         dir_children_all_before(d, marker)
           <=> /\ ~StartsWith(marker, Output(d))
               /\ \A n \in FileKeys \cup {<<>>} : Before(Output(d) \o n, marker)
    /\ \A i \in 1..Len(dirs) :
         i <= dirs_start_after(dirs, marker) <=> dir_children_all_before(dirs[i], marker)

\* The client reaches the last page: a token never leads back to its own page.
PagingEnds == <>(pc = "done")
=============================================================================
