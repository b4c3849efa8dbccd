------------------------------ MODULE Listing ------------------------------
(***************************************************************************)
(* ListObjects (handlers/bucket.go): a client pages through a bucket while *)
(* objects are uploaded, committed and deleted and the process may crash.  *)
(*                                                                         *)
(* A key is a sequence of symbols, ordered as bytes are: 0 stands for the  *)
(* name ".upload-" of a temporary file, 1 for "/", larger ones for         *)
(* letters.  Sidecars are never listed and are left out.  The walk of the  *)
(* directory tree is not atomic: it finds what is there all the time, and  *)
(* may or may not find what comes or goes meanwhile.                       *)
(***************************************************************************)
EXTENDS Naturals, Sequences, SequencesExt, FiniteSets

CONSTANTS
  Keys,        \* object keys
  PrefixArgs,  \* prefix parameters; <<>> for none
  MaxKeysArgs, \* max-keys parameters; 0 for none or a malformed one
  ListMaxKeys, \* listMaxKeys
  Crashes,     \* TRUE: the process may crash
  MaxChanges   \* bound on uploads and deletes

Slash == 1
Dot == 0

ASSUME ListingAssumption ==
  /\ Keys \subseteq Seq(Nat) /\ PrefixArgs \subseteq Seq(Nat)
  /\ \A k \in Keys : k # <<>> /\ Last(k) # Slash /\ \A i \in DOMAIN k : k[i] > Dot
  /\ \A j, k \in Keys : ~IsPrefix(Append(j, Slash), k)
  /\ MaxKeysArgs \subseteq Nat /\ ListMaxKeys \in Nat \ {0}
  /\ Crashes \in BOOLEAN /\ MaxChanges \in Nat

VARIABLES
  files,    \* keys of the objects
  staged,   \* keys with an upload under way, in a temporary file
  left,     \* keys whose temporary file a crash left behind
  query,    \* the parameters of the listing
  cursor,   \* startAfter of the next page; <<>> for none
  pc,       \* where the listing is: "ask", "walk", "resolve" or "done"
  through,  \* names there since the walk began
  met,      \* names there at some time since the walk began
  page,     \* the entries of the page
  next,     \* the entry to resolve next
  more,     \* IsTruncated
  lastKey,  \* where the next page begins, when there is one
  out,      \* the entries the client has
  stable,   \* history: names there since the listing began
  ever,     \* history: names there at some time since the listing began
  changes   \* uploads and deletes so far

pageVars == <<page, next, more, lastKey>>
listingVars == <<files, staged, left, query, cursor, pc, through, met, pageVars, out, stable, ever,
          changes>>

\* Byte order.
Less(s, t) ==
  \E i \in 1 .. Len(t) :
    /\ i <= Len(s) + 1
    /\ SubSeq(s, 1, i - 1) = SubSeq(t, 1, i - 1)
    /\ i <= Len(s) => s[i] < t[i]

\* streamToObject: the temporary file is in the directory of the object.
Temp(k) ==
  LET slashes == {0} \cup {i \in DOMAIN k : k[i] = Slash}
      d == CHOOSE i \in slashes : \A j \in slashes : j <= i
  IN SubSeq(k, 1, d) \o <<Dot>> \o SubSeq(k, d + 1, Len(k))

\* What isSidecar leaves of the files in the tree.
Names == files \cup {Temp(k) : k \in staged \cup left}

\* parseMaxKeys
ParseMaxKeys(n) == IF n = 0 \/ n > ListMaxKeys THEN ListMaxKeys ELSE n

Matches(k) == IsPrefix(query.prefix, k)

\* The entry a key is listed under: itself, or its common prefix.
EntryOf(k) ==
  LET cuts == {i \in (Len(query.prefix) + 1) .. Len(k) : k[i] = Slash}
  IN IF query.delimiter /\ cuts # {}
     THEN SubSeq(k, 1, CHOOSE i \in cuts : \A j \in cuts : i <= j)
     ELSE k

IsCommonPrefix(e) == Last(e) = Slash

\* Mutant: a page begins with the last entry of the one before.
AfterCursorOrAt(E) == {e \in E : cursor = <<>> \/ ~Less(e, cursor)}

\* Objects and common prefixes behind the cursor, as one sorted stream.
AfterCursor(E) == {e \in E : cursor = <<>> \/ Less(cursor, e)}

Sorted(E) ==
  [i \in 1 .. Cardinality(E) |-> CHOOSE e \in E : Cardinality({f \in E : Less(f, e)}) = i - 1]

Merged(S) == Sorted(AfterCursor({EntryOf(k) : k \in {n \in S : Matches(n)}}))

ListingInit ==
  /\ files \in SUBSET Keys /\ IsFiniteSet(files)
  /\ staged = {} /\ left = {}
  /\ query \in [prefix : PrefixArgs, delimiter : BOOLEAN, max : {ParseMaxKeys(n) : n \in MaxKeysArgs}]
  /\ cursor = <<>> /\ pc = "ask"
  /\ through = {} /\ met = {}
  /\ page = <<>> /\ next = 1 /\ more = FALSE /\ lastKey = <<>>
  /\ out = <<>>
  /\ stable = Names /\ ever = Names
  /\ changes = 0
-----------------------------------------------------------------------------
\* What the walk and the listing can see of a change.
Observe ==
  /\ through' = through \cap Names'
  /\ met' = met \cup Names'
  /\ stable' = stable \cap Names'
  /\ ever' = ever \cup Names'

Change ==
  /\ changes < MaxChanges
  /\ changes' = changes + 1

\* PutObject: a temporary file first ...
Upload(k) ==
  /\ k \notin staged
  /\ Change
  /\ staged' = staged \cup {k}
  /\ UNCHANGED <<files, left>>
  /\ Observe
  /\ UNCHANGED <<query, cursor, pc, pageVars, out>>

\* ... and then a rename.
Commit(k) ==
  /\ k \in staged
  /\ staged' = staged \ {k}
  /\ files' = files \cup {k}
  /\ UNCHANGED left
  /\ Observe
  /\ UNCHANGED <<query, cursor, pc, pageVars, out, changes>>

Delete(k) ==
  /\ k \in files
  /\ Change
  /\ files' = files \ {k}
  /\ UNCHANGED <<staged, left>>
  /\ Observe
  /\ UNCHANGED <<query, cursor, pc, pageVars, out>>

\* Temporary files stay; the client asks for the page again.
Crash ==
  /\ Crashes
  /\ pc # "done"
  /\ staged # {}
  /\ left' = left \cup staged
  /\ staged' = {}
  /\ pc' = "ask"
  /\ UNCHANGED <<files, query, cursor, through, met, pageVars, out, stable, ever, changes>>
-----------------------------------------------------------------------------
\* ListObjectsHandler: the walk begins ...
Walk ==
  /\ pc = "ask"
  /\ through' = Names /\ met' = Names
  /\ pc' = "walk"
  /\ UNCHANGED <<files, staged, left, query, cursor, pageVars, out, stable, ever, changes>>

\* Mutant: the page is cut one entry short.
MakePageShort(S) ==
  LET all == Merged(S)
  IN /\ more' = (Len(all) > query.max)
     /\ page' = IF more' THEN SubSeq(all, 1, query.max - 1) ELSE all
     /\ lastKey' = IF more' THEN all[query.max] ELSE <<>>

\* Filter, roll up, sort, seek and cut.
MakePage(S) ==
  LET all == Merged(S)
  IN /\ more' = (Len(all) > query.max)
     /\ page' = IF more' THEN SubSeq(all, 1, query.max) ELSE all
     /\ lastKey' = IF more' THEN all[query.max] ELSE <<>>

\* ... and ends.
EndWalk ==
  /\ pc = "walk"
  /\ \E extra \in SUBSET (met \ through) : MakePage(through \cup extra)
  /\ next' = 1
  /\ pc' = "resolve"
  /\ UNCHANGED <<files, staged, left, query, cursor, through, met, out, stable, ever, changes>>

\* loadOrBackfillETag and ResolveObjectACL, for objects only: a file that has gone
\* fails the request, and the client asks again.
Resolve ==
  /\ pc = "resolve"
  /\ next <= Len(page)
  /\ IF IsCommonPrefix(page[next]) \/ page[next] \in Names
     THEN next' = next + 1 /\ UNCHANGED pc
     ELSE pc' = "ask" /\ UNCHANGED next
  /\ UNCHANGED <<files, staged, left, query, cursor, through, met, page, more, lastKey, out,
                 stable, ever, changes>>

\* The response; a client that gets NextContinuationToken goes on behind lastKey.
Respond ==
  /\ pc = "resolve"
  /\ next > Len(page)
  /\ out' = out \o page
  /\ pc' = IF more THEN "ask" ELSE "done"
  /\ cursor' = IF more THEN lastKey ELSE cursor
  /\ UNCHANGED <<files, staged, left, query, through, met, pageVars, stable, ever, changes>>

Done == pc = "done" /\ UNCHANGED listingVars

ListingNext ==
  \/ \E k \in Keys : pc # "done" /\ (Upload(k) \/ Commit(k) \/ Delete(k))
  \/ Crash
  \/ Walk \/ EndWalk \/ Resolve \/ Respond \/ Done

ListingSpec == ListingInit /\ [][ListingNext]_listingVars
-----------------------------------------------------------------------------
\* Every variable has its type, and a page its bound.
ListingTypeOK ==
  /\ files \subseteq Keys /\ staged \subseteq Keys /\ left \subseteq Keys
  /\ pc \in {"ask", "walk", "resolve", "done"}
  /\ Len(page) <= ListMaxKeys /\ next \in 1 .. Len(page) + 1
  /\ more \in BOOLEAN
  /\ stable \subseteq ever /\ through \subseteq met

(***************************************************************************)
(* "so a single token resumes the listing deterministically": whatever     *)
(* comes and goes between two pages, the client gets every entry at most   *)
(* once and in order.                                                      *)
(***************************************************************************)
ListingOrdered == \A i \in 1 .. Len(out) - 1 : Less(out[i], out[i + 1])

(***************************************************************************)
(* A listing that came to its end has every key that was there all along   *)
(* and has the prefix, by itself or in its common prefix.                  *)
(***************************************************************************)
ListingComplete ==
  pc = "done" => \A k \in stable : Matches(k) => EntryOf(k) \in ToSet(out)

\* What is listed has the prefix and was there while the listing was made.
ListingSound ==
  \A e \in ToSet(out) : \E k \in ever : IsPrefix(query.prefix, k) /\ EntryOf(k) = e

(***************************************************************************)
(* ListObjectsHandler, over all pages: nothing is missed, nothing is made  *)
(* up.                                                                     *)
(***************************************************************************)
ListingExact == ListingTypeOK /\ ListingComplete /\ ListingSound
=============================================================================
