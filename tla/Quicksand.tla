------------------------------- MODULE Quicksand -------------------------------
(***************************************************************************)
(* src/public/js/portfolio: the filter of the portfolio page.  A click     *)
(* calls quicksand, which stops what a previous call still animates, moves *)
(* the items it keeps, fades the others out and copies of the missing ones *)
(* in, and puts the destination collection in place of all of them when    *)
(* the first of these animations is complete.                              *)
(*                                                                         *)
(* Every call keeps its own variables (its closure), which live on after   *)
(* the next click.  Items are matched by their data-id, which is not       *)
(* unique in portfolio.html.                                               *)
(***************************************************************************)
EXTENDS Integers, Sequences, SequencesExt

CONSTANTS
  Items,        \* the items of the page in order: [id, type]
  Filters,      \* the entries of ".filter", "all" among them
  MaxClicks     \* bound on the clicks, that is on the calls of quicksand

ASSUME QuicksandAssumption ==
  /\ "all" \in Filters /\ MaxClicks \in Nat
  /\ \A i \in 1 .. Len(Items) : Items[i].type \in Filters

VARIABLES
  active,       \* the entry with class "active"
  children,     \* what .portfolio contains: [item, bound], bound when the
                \* lightbox handles clicks on it
  clicks,       \* number of calls so far
  dest,         \* call -> the children of its $dest
  performed,    \* call -> its postCallbackPerformed
  animated      \* call -> how many of its animations still run

quicksandVars == <<active, children, clicks, dest, performed, animated>>

Calls   == 1 .. MaxClicks
Numbers == 1 .. Len(Items)

(* portfolio.html as it is loaded; custom.js binds the lightbox.           *)
QuicksandInit ==
  /\ active = "all"
  /\ children = [i \in Numbers |-> [item |-> i, bound |-> TRUE]]
  /\ clicks = 0
  /\ dest = [c \in Calls |-> <<>>]
  /\ performed = [c \in Calls |-> FALSE]
  /\ animated = [c \in Calls |-> 0]

QuicksandTypeOK ==
  /\ active \in Filters
  /\ \A i \in 1 .. Len(children) :
       children[i].item \in Numbers /\ children[i].bound \in BOOLEAN
  /\ clicks \in 0 .. MaxClicks
  /\ \A c \in Calls : \A i \in 1 .. Len(dest[c]) : dest[c][i] \in Numbers
  /\ performed \in [Calls -> BOOLEAN]
  /\ animated \in [Calls -> 0 .. Len(Items) * Len(Items)]

Copies(items, bound) ==
  [i \in 1 .. Len(items) |-> [item |-> items[i], bound |-> bound]]

(* The callback of setting.js binds the lightbox to all items of the page. *)
Lightbox(items) == Copies(items, TRUE)

ShownItems == [i \in 1 .. Len(children) |-> children[i].item]

-------------------------------------------------------------------------------
(* The class attribute of an entry when the given ones are highlighted.    *)
classes(li, highlighted) ==
  IF li \in highlighted THEN <<li, "active">> ELSE <<li>>

(* removeClass takes "active" from all entries, then the last class of the *)
(* entry clicked is read.                                                  *)
removeClass == {}

filterClass(li) == Last(classes(li, removeClass))

(* $filteredData, in the order of the page.                                *)
filteredData(class) ==
  SelectSeq([i \in Numbers |-> i],
            LAMBDA i : class = "all" \/ Items[i].type = class)

(* The options of setting.js leave options.attribute at "data-id".         *)
attribute(i) == Items[i].id

SameId(items, i) == SelectSeq(items, LAMBDA j : attribute(j) = attribute(i))

(* The items of the collection without a counterpart in the source: for    *)
(* each of them all that share its data-id are cloned and appended.        *)
appended(source, collection) ==
  FlattenSeq([i \in 1 .. Len(collection) |->
    IF SameId(source, collection[i]) = <<>>
    THEN SameId(collection, collection[i]) ELSE <<>>])

(* The animations of earlier calls after $(this).stop(): those of elements *)
(* on the page are gone, those of elements postCallback removed run on.    *)
stop == [c \in Calls |-> IF performed[c] THEN animated[c] ELSE 0]

(* Mutant of animationQueue: only what is new is animated.                 *)
animationQueue_New(new) == Len(new)

(* How many animations a call starts: each element of the source moves or  *)
(* fades out, each new one fades in.                                       *)
animationQueue(new) == Len(children) + Len(new)

(* A click, with the whole call of quicksand.                              *)
Click(li) ==
  /\ clicks < MaxClicks
  /\ clicks' = clicks + 1
  /\ active' = li
  /\ LET collection == filteredData(filterClass(li))
         new        == appended(ShownItems, collection)
     IN  /\ dest' = [dest EXCEPT ![clicks'] = collection]
         /\ children' = children \o Copies(new, FALSE)
         /\ animated' = [stop EXCEPT ![clicks'] = animationQueue(new)]
  /\ UNCHANGED performed

(* Mutant of postCallback: it does not look whether it has run.            *)
postCallback_Again(c) ==
  /\ children' = Lightbox(dest[c])
  /\ dest' = [dest EXCEPT ![c] = <<>>]
  /\ performed' = [performed EXCEPT ![c] = TRUE]

(* The children of $dest move to the page, once for each call, and the     *)
(* callback runs.                                                          *)
postCallback(c) ==
  IF performed[c] THEN UNCHANGED <<children, dest, performed>>
  ELSE /\ children' = Lightbox(dest[c])
       /\ dest' = [dest EXCEPT ![c] = <<>>]
       /\ performed' = [performed EXCEPT ![c] = TRUE]

(* One of the animations a call started is complete.                       *)
Complete(c) ==
  /\ animated[c] > 0
  /\ animated' = [animated EXCEPT ![c] = @ - 1]
  /\ postCallback(c)
  /\ UNCHANGED <<active, clicks>>

QuicksandNext ==
  \/ \E li \in Filters : Click(li)
  \/ \E c \in Calls : Complete(c)

-------------------------------------------------------------------------------
Settled == clicks > 0 /\ performed[clicks]

(* Once the last call has put its items in place the page shows what the   *)
(* highlighted entry stands for, each item once, in order and with the     *)
(* lightbox, whatever calls were overtaken and whatever animations of      *)
(* removed elements still end.                                             *)
FilterShown ==
  Settled => children = Copies(filteredData(active), TRUE)
===============================================================================
