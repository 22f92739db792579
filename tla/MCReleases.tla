----------------------------- MODULE MCReleases -----------------------------
(* The bodies TLC tries: creations carry every column, updates one.           *)
EXTENDS Releases, Overlap, TLC

VARIABLES
  overlapped,    \* two requests have been in progress at once
  moved          \* channels that a release of another channel has moved to

MCInit == Init /\ overlapped = FALSE /\ moved = {}

Movers(c) == {r \in Releases : rows[r].channel \notin {None, c} /\ rows'[r].channel = c}

Remembered ==
  /\ overlapped' = (overlapped \/ Overlap(sessions'))
  /\ moved' = moved \cup {c \in Channels : Movers(c) # {}}

HistoryNext == Next /\ Remembered

HistorySpec == MCInit /\ [][HistoryNext]_<<vars, overlapped, moved>>

(* The bound on overlapping requests: published releases of one channel, as   *)
(* the latest flag of a channel depends neither on the status of its releases *)
(* nor on other channels, unless a release moves, and LatestBounded is about  *)
(* channels no release has moved to.                                          *)
OneChannel ==
  /\ moved = {}
  /\ \A r \in Releases : rows[r].status \in {None, "PUBLISHED"}
  /\ \A w \in Workers : sessions[w].patch.status \in {None, "PUBLISHED"}
  /\ Cardinality(({rows[r].channel : r \in Releases}
                    \cup {sessions[w].patch.channel : w \in Workers}) \ {None}) <= 1

MCNext == HistoryNext /\ (overlapped' => OneChannel')

MCSpec == MCInit /\ [][MCNext]_<<vars, overlapped, moved>>

Tried == Statuses \ {"ARCHIVED"}

SinglePatches ==
  [status : Tried, channel : Channels, build : Builds, latest : BOOLEAN]
    \cup {[NoPatch EXCEPT !.status = status] : status \in Tried}
    \cup {[NoPatch EXCEPT !.channel = channel] : channel \in Channels}
    \cup {[NoPatch EXCEPT !.build = build] : build \in Builds}
    \cup {[NoPatch EXCEPT !.latest = latest] : latest \in BOOLEAN}

Symmetry ==
  Permutations(Releases) \cup Permutations(Channels) \cup Permutations(Builds)
    \cup Permutations(Workers)

(* Overlap does not pile up: a channel no release has moved to has at most    *)
(* one latest release for each handler, as each that has demoted the others   *)
(* adds one before it demotes again.                                          *)
LatestBounded ==
  \A c \in Channels \ moved : Cardinality(Latest(c)) <= Cardinality(Workers)

(* SecondLatestIsMoved until requests overlap: two creations do not see each  *)
(* other's row when they demote.                                              *)
SecondLatestIsMovedAlone == [][~overlapped => SecondLatestIsMoved]_vars

(* PublishedFrozen until requests overlap: an update that has read a draft    *)
(* writes its channel to the row another handler has published.               *)
PublishedFrozenAlone == [][~overlapped => PublishedFrozen]_vars

==============================================================================
