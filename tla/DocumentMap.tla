---------------------------- MODULE DocumentMap ----------------------------
(***************************************************************************)
(* build_document_map: the pages of a bid package are profiled, every file *)
(* is segmented into regions, and each artifact is located by its          *)
(* signature in the regions of its kind.                                   *)
(*                                                                         *)
(* A page is its size class, whether its text holds a manual anchor, and   *)
(* `signs`: the artifacts whose prefilter its tokens pass, each with the   *)
(* confidence (in hundredths) the confirm step gives it, 0 for a           *)
(* rejection.  Files and pages are numbered from 1.                        *)
(***************************************************************************)
EXTENDS Integers, SequencesExt

CONSTANTS
  Packages, \* the bid packages: sequences of files, a file a sequence of pages
  MinRun    \* min_run

ASSUME MinRunAssumption == MinRun \in Nat

\* A package is files in an order, a file pages in an order.
ASSUME PackagesAssumption ==
  \A p \in Packages :
    /\ p \in Seq(ToSet(p))
    /\ \A f \in DOMAIN p :
         /\ p[f] \in Seq(ToSet(p[f]))
         /\ \A i \in DOMAIN p[f] : \A n \in DOMAIN p[f][i].signs : p[f][i].signs[n] \in Nat

VARIABLES
  package,
  mapping,   \* "segment", "locate" or "mapped"
  kinds,     \* segment_file: the kind of each page of the file it works on
  regions,
  artifacts  \* name -> where it was located, and with which status

mapVars == <<package, mapping, kinds, regions, artifacts>>

LOCATORS ==
  <<[name |-> "spec_toc",        kind |-> "manual",   many |-> TRUE,  floor |-> 60],
    [name |-> "drawing_index",   kind |-> "drawings", many |-> FALSE, floor |-> 60],
    [name |-> "door_schedule",   kind |-> "drawings", many |-> TRUE,  floor |-> 60],
    [name |-> "finish_schedule", kind |-> "drawings", many |-> TRUE,  floor |-> 60],
    [name |-> "abbreviations",   kind |-> "drawings", many |-> FALSE, floor |-> 50]>>

ARTIFACT_REGION ==
  [n \in {"spec_toc", "spec_section", "drawing_index", "door_schedule", "finish_schedule", "abbreviations"} |->
     IF n \in {"spec_toc", "spec_section"} THEN "manual" ELSE "drawings"]

-----------------------------------------------------------------------------
(***************************************************************************)
(* segment_file                                                            *)
(***************************************************************************)

ProvisionalKind(page) == IF page.large THEN "drawings" ELSE "manual"

\* _runs: the maximal runs of one value, as pairs of their first and last place.
Runs(s) ==
  {r \in (DOMAIN s) \X (DOMAIN s) :
     /\ r[1] <= r[2]
     /\ \A i \in r[1]..r[2] : s[i] = s[r[1]]
     /\ r[1] = 1 \/ s[r[1] - 1] # s[r[1]]
     /\ r[2] = Len(s) \/ s[r[2] + 1] # s[r[2]]}

PageCount(r) == r[2] - r[1] + 1

StraysUpToMinRun(s) ==
  {r \in Runs(s) :
     /\ r[1] > 1 /\ r[2] < Len(s)
     /\ PageCount(r) <= MinRun
     /\ s[r[1] - 1] = s[r[2] + 1]}

Strays(s) ==
  {r \in Runs(s) :
     /\ r[1] > 1 /\ r[2] < Len(s)
     /\ PageCount(r) < MinRun
     /\ s[r[1] - 1] = s[r[2] + 1]}

First(rs) == CHOOSE r \in rs : \A o \in rs : r[1] <= o[1]

\* _mark_front_matter: a short run of text at either end, without an anchor.
IsFrontMatter(pages, r) ==
  /\ kinds[r[1]] = "manual"
  /\ r[1] = 1 \/ r[2] = Len(pages)
  /\ PageCount(r) < MinRun
  /\ \A i \in r[1]..r[2] : ~pages[i].anchored

RegionOf(f, r) ==
  [kind  |-> IF IsFrontMatter(package[f], r) THEN "front_matter" ELSE kinds[r[1]],
   file  |-> f, first |-> r[1], last |-> r[2]]

Starts(s)   == {r[1] : r \in Runs(s)}
RunAt(s, i) == CHOOSE r \in Runs(s) : r[1] = i

\* The k-th number of a set, from the least.
Ranked(S, k) == CHOOSE x \in S : Cardinality({y \in S : y <= x}) = k

FileRegions(f) ==
  [k \in 1..Cardinality(Starts(kinds)) |-> RegionOf(f, RunAt(kinds, Ranked(Starts(kinds), k)))]

Provisional(f) == [i \in DOMAIN package[f] |-> ProvisionalKind(package[f][i])]

\* The file segment_package is at: each one with a page leaves a region.
Segmented == {regions[k].file : k \in DOMAIN regions}
Current   == CHOOSE f \in DOMAIN package : f \notin Segmented
               /\ \A g \in 1..f - 1 : g \in Segmented

-----------------------------------------------------------------------------
(***************************************************************************)
(* locate_all                                                              *)
(***************************************************************************)

Holds(r, f, i) == r.file = f /\ i \in r.first..r.last

OfKind(kind) == {r \in ToSet(regions) : r.kind = kind}

Everywhere == UNION {{f} \X DOMAIN package[f] : f \in DOMAIN package}

ConfirmedAnywhere(spec) ==
  {p \in Everywhere :
     /\ spec.name \in DOMAIN package[p[1]][p[2]].signs
     /\ package[p[1]][p[2]].signs[spec.name] > 0}

\* _candidates, then the confirm step: the pages that answer to the name.
Confirmed(spec) ==
  {p \in Everywhere :
     /\ spec.name \in DOMAIN package[p[1]][p[2]].signs
     /\ \E r \in OfKind(spec.kind) : Holds(r, p[1], p[2])
     /\ package[p[1]][p[2]].signs[spec.name] > 0}

Confidence(name, p) == package[p[1]][p[2]].signs[name]

PagesOf(s) == {<<s.file, i>> : i \in s.first..s.last}

\* The contiguous runs of the pages, each within one file.
Spans(ps) ==
  LET Full == {s \in [file : {p[1] : p \in ps}, first : {p[2] : p \in ps}, last : {p[2] : p \in ps}] :
                 s.first <= s.last /\ PagesOf(s) \subseteq ps}
  IN  {s \in Full : <<s.file, s.first - 1>> \notin ps /\ <<s.file, s.last + 1>> \notin ps}

Singles(ps) == {[file |-> p[1], first |-> p[2], last |-> p[2]] : p \in ps}

\* The confidence of the span's pages up to each of them.
Summed(name, s) ==
  LET sum[i \in s.first - 1 .. s.last] ==
        IF i < s.first THEN 0 ELSE sum[i - 1] + Confidence(name, <<s.file, i>>)
  IN  sum

Total(name, s) == Summed(name, s)[s.last]

Beats(name, s, t) ==
  LET Size(u) == u.last - u.first
  IN  \/ Size(s) > Size(t)
      \/ (Size(s) = Size(t) /\ Total(name, s) > Total(name, t))

Before(s, t) == s.file < t.file \/ (s.file = t.file /\ s.first < t.first)

\* _longest_run and max: the first of the best.
Best(name, ss) ==
  CHOOSE s \in ss : \A t \in ss \ {s} :
    Beats(name, s, t) \/ (~Beats(name, t, s) /\ Before(s, t))

Nowhere == [file |-> 0, first |-> 0, last |-> -1]

\* _assemble
Assembled(spec) ==
  LET ps   == Confirmed(spec)
      At   == Best(spec.name, IF spec.many THEN Spans(ps) ELSE Singles(ps))
      Sure == \E p \in PagesOf(At) : Confidence(spec.name, p) >= spec.floor
  IN  CASE OfKind(spec.kind) = {} -> [status |-> "not_applicable", at |-> Nowhere]
        [] OfKind(spec.kind) # {} /\ ps = {} -> [status |-> "absent", at |-> Nowhere]
        [] OTHER -> [status |-> IF Sure THEN "found" ELSE "low_confidence", at |-> At]

Put(f, x, y) == [z \in DOMAIN f \cup {x} |-> IF z = x THEN y ELSE f[z]]

Located(name) == artifacts[name].status \in {"found", "low_confidence"}

-----------------------------------------------------------------------------
MapInit ==
  /\ package \in Packages
  /\ mapping = "segment"
  /\ kinds = <<>>
  /\ regions = <<>>
  /\ artifacts = <<>>

SegmentFile ==
  /\ mapping = "segment" /\ kinds = <<>> /\ Segmented # DOMAIN package
  /\ kinds' = Provisional(Current)
  /\ UNCHANGED <<package, mapping, regions, artifacts>>

\* _absorb_strays: one turn of its loop relabels the leftmost stray.
AbsorbStray ==
  /\ mapping = "segment" /\ Strays(kinds) # {}
  /\ LET r == First(Strays(kinds))
     IN  kinds' = [i \in DOMAIN kinds |-> IF i \in r[1]..r[2] THEN kinds[r[1] - 1] ELSE kinds[i]]
  /\ UNCHANGED <<package, mapping, regions, artifacts>>

EmitRegions ==
  /\ mapping = "segment" /\ kinds # <<>> /\ Strays(kinds) = {}
  /\ regions' = regions \o FileRegions(Current)
  /\ kinds' = <<>>
  /\ UNCHANGED <<package, mapping, artifacts>>

StartLocating ==
  /\ mapping = "segment" /\ kinds = <<>> /\ Segmented = DOMAIN package
  /\ mapping' = "locate"
  /\ UNCHANGED <<package, kinds, regions, artifacts>>

Locate ==
  /\ mapping = "locate"
  /\ \E spec \in ToSet(LOCATORS) :
       /\ spec = LOCATORS[Cardinality(DOMAIN artifacts) + 1]
       /\ artifacts' = Put(artifacts, spec.name, Assembled(spec))
  /\ mapping' = IF Cardinality(DOMAIN artifacts') = Len(LOCATORS) THEN "mapped" ELSE "locate"
  /\ UNCHANGED <<package, kinds, regions>>

MapNext == SegmentFile \/ AbsorbStray \/ EmitRegions \/ StartLocating \/ Locate

-----------------------------------------------------------------------------
\* _completeness
Completeness ==
  LET Present  == {r.kind : r \in ToSet(regions)}
      Expected == {n \in DOMAIN artifacts : ARTIFACT_REGION[n] \in Present}
  IN  [expected       |-> Expected,
       found          |-> {n \in Expected : Located(n)},
       missing        |-> {n \in Expected : artifacts[n].status = "absent"},
       not_applicable |-> DOMAIN artifacts \ Expected]

\* extraction_pages: the first page, without its file; None for an absent artifact.
None == -1
FirstPage(name) == IF Located(name) THEN artifacts[name].at.first ELSE None
SectionStart    == IF Located("spec_toc") THEN artifacts["spec_toc"].at.last + 1 ELSE 1
=============================================================================
