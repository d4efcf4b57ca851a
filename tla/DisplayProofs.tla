----------------------------- MODULE DisplayProofs -----------------------------
(***************************************************************************)
(* Proofs about the machines of MCDisplay, for any packs, sources, lists,   *)
(* pictures and sizes.                                                     *)
(*                                                                         *)
(* Emoji: who waits for a picture is a caller of a load under way.         *)
(* Stickers: at most the last task of the queue is not cancelled, and only  *)
(* its first has begun.  The grid: without a frame to come, what was drawn  *)
(* is what is seen.  The place of a list: the snapshot is always that of   *)
(* the list and the scroll position as they are.  The crop: an area lies   *)
(* in the picture shown, and what is cut is followed through the roundings. *)
(*                                                                         *)
(* A lemma ...Init and a lemma ...Step say that the invariant of a machine  *)
(* holds; the theorems at the end put the machines together.               *)
(***************************************************************************)
EXTENDS MCDisplay, FiniteSetTheorems, SequenceTheorems, TLAPS

------------------------------------------------------------------------------
(* The catalogue of emoji                                                  *)

\* What is indexed or has its picture is in the index, and so is what a picture is asked for.
OnlyIndexed ==
  /\ \A e \in Emoji!Emojis : known[e] \in {"indexed", "src"} => Emoji!IsIndexed(e)
  /\ \A c \in calls : c.at = "asset" => Emoji!IsIndexed(c.emoji)
CatalogTypes ==
  /\ known \in [Emoji!Emojis -> {"unknown", "stub", "indexed", "src"}]
  /\ packs \in [Packs -> {"none", "pending", "loaded"}]
  /\ chunks \in [Packs -> {"none", "pending", "loaded"}]
  /\ inPack \in [Packs -> SUBSET Emoji!Emojis]
  /\ calls \subseteq [emoji : Emoji!Emojis, at : {"pack", "asset"}]
  /\ view \in [Emoji!Emojis -> {"off", "wait", "failed", "shown"}]
  /\ active \subseteq Packs
CachedAgree ==
  \A p \in Packs : packs[p] = "loaded" =>
    inPack[p] = {e \in Emoji!Emojis : Emoji!Pack(e) = p /\ known[e] = "src"}
ShownIsKnown == \A e \in Emoji!Emojis : view[e] = "shown" => known[e] = "src"
WaitedForIsCalled ==
  \A e \in Emoji!Emojis : view[e] = "wait" =>
    \E at \in {"pack", "asset"} : [emoji |-> e, at |-> at] \in calls
CallsAreLoading ==
  \A c \in calls : /\ c.at = "pack" => packs[Emoji!Pack(c.emoji)] = "pending"
                   /\ c.at = "asset" => chunks[Emoji!Pack(c.emoji)] = "pending"
PickerIsServed == \A p \in active : p \in held \/ p \in unanswered \/ packs[p] = "pending"
CatalogInv ==
  /\ CatalogTypes /\ OnlyIndexed /\ CachedAgree /\ ShownIsKnown
  /\ WaitedForIsCalled /\ CallsAreLoading /\ PickerIsServed

\* Every emoji has its pack; the preview of a pack is in its index.
LEMMA EmojiPacks ==
  /\ \A e \in Emoji!Emojis : Emoji!Pack(e) \in Packs
  /\ PackSize \in Nat \ {0} => \A e \in Emoji!Emojis : Emoji!IsPreview(e) => Emoji!IsIndexed(e)
BY DEF Emoji!Emojis, Emoji!Pack, Emoji!IsPreview, Emoji!IsIndexed

\* Nothing is known at first and nobody waits.
LEMMA CatalogInit ==
  ASSUME Emoji!StickersAssumption, Emoji!CatalogInit PROVE CatalogInv
<1>1. PackSize \in Nat \ {0}
  BY DEF Emoji!StickersAssumption
<1>2. CatalogTypes
  BY DEF Emoji!CatalogInit, CatalogTypes
<1>3. OnlyIndexed
  BY <1>1, EmojiPacks DEF Emoji!CatalogInit, OnlyIndexed
<1>4. CachedAgree /\ ShownIsKnown
  BY DEF Emoji!CatalogInit, CachedAgree, ShownIsKnown
<1>5. WaitedForIsCalled /\ CallsAreLoading /\ PickerIsServed
  BY DEF Emoji!CatalogInit, WaitedForIsCalled, CallsAreLoading, PickerIsServed
<1> QED
  BY <1>2, <1>3, <1>4, <1>5 DEF CatalogInv

\* An emoji that is mounted shows its picture, or asks for its pack or for the picture.
LEMMA Mounted ==
  ASSUME CatalogInv, NEW e \in Emoji!Emojis, Emoji!Mount(e) PROVE CatalogInv'
<1> DEFINE p == Emoji!Pack(e)
<1> p \in Packs
  BY EmojiPacks
<1> USE DEF CatalogInv
<1>1. \/ known[e] = "src" /\ view' = [view EXCEPT ![e] = "shown"]
         /\ UNCHANGED <<known, packs, chunks, calls>>
      \/ /\ known[e] = "indexed" /\ view' = [view EXCEPT ![e] = "shown"]
         /\ known' = [known EXCEPT ![e] = "src"] /\ UNCHANGED <<packs, chunks, calls>>
      \/ /\ known[e] = "indexed" /\ chunks' = [chunks EXCEPT ![p] = "pending"]
         /\ calls' = calls \cup {[emoji |-> e, at |-> "asset"]}
         /\ view' = [view EXCEPT ![e] = "wait"] /\ UNCHANGED <<known, packs>>
      \/ /\ known[e] \in {"unknown", "stub"} /\ packs[p] # "loaded"
         /\ known' = [known EXCEPT ![e] = "stub"] /\ packs' = [packs EXCEPT ![p] = "pending"]
         /\ calls' = calls \cup {[emoji |-> e, at |-> "pack"]}
         /\ view' = [view EXCEPT ![e] = "wait"] /\ UNCHANGED chunks
      \/ /\ known[e] \in {"unknown", "stub"} /\ known' = [known EXCEPT ![e] = "unknown"]
         /\ view' = [view EXCEPT ![e] = "failed"] /\ UNCHANGED <<packs, chunks, calls>>
  BY DEF Emoji!Mount, Emoji!Calls
<1>2. /\ view[e] = "off" /\ UNCHANGED <<active, held, unanswered>>
      /\ inPack' = IF known'[e] = "src" /\ packs[p] = "loaded"
                   THEN [inPack EXCEPT ![p] = @ \cup {e}] ELSE inPack
  BY DEF Emoji!Mount
<1>3. CatalogTypes'
  BY <1>1, <1>2 DEF CatalogTypes
<1>4. OnlyIndexed'
  BY <1>1 DEF OnlyIndexed, CatalogTypes
<1>5. CachedAgree'
  <2>1. \A q \in Packs : packs'[q] = "loaded" => packs[q] = "loaded"
    BY <1>1 DEF CatalogTypes
  <2>2. \A d \in Emoji!Emojis : d # e => known'[d] = known[d]
    BY <1>1 DEF CatalogTypes
  <2>3. known[e] = "src" => known'[e] = "src"
    BY <1>1 DEF CatalogTypes
  <2>4. ASSUME NEW q \in Packs, packs'[q] = "loaded"
        PROVE  inPack'[q] = {d \in Emoji!Emojis : Emoji!Pack(d) = q /\ known'[d] = "src"}
    <3>1. inPack[q] = {d \in Emoji!Emojis : Emoji!Pack(d) = q /\ known[d] = "src"}
      BY <2>1, <2>4 DEF CachedAgree
    <3>2. CASE known'[e] = "src" /\ q = p
      <4>1. inPack'[q] = inPack[q] \cup {e}
        BY <1>2, <2>1, <2>4, <3>2 DEF CatalogTypes
      <4> QED
        BY <2>2, <2>3, <3>1, <3>2, <4>1
    <3>3. CASE known'[e] # "src" \/ q # p
      <4>1. inPack'[q] = inPack[q]
        BY <1>2, <3>3 DEF CatalogTypes
      <4> QED
        BY <2>2, <2>3, <3>1, <3>3, <4>1
    <3> QED
      BY <3>2, <3>3
  <2> QED
    BY <2>4 DEF CachedAgree
<1>6. ShownIsKnown'
  BY <1>1, <1>2 DEF ShownIsKnown, CatalogTypes
<1>7. WaitedForIsCalled'
  BY <1>1 DEF WaitedForIsCalled, CatalogTypes
<1>8. CallsAreLoading'
  BY <1>1, EmojiPacks DEF CallsAreLoading, CatalogTypes
<1>9. PickerIsServed'
  BY <1>1, <1>2 DEF PickerIsServed, CatalogTypes
<1> QED
  BY <1>3, <1>4, <1>5, <1>6, <1>7, <1>8, <1>9

\* Those who wait are told: they have their picture or fail, and nobody else's view changes.
LEMMA AllTold ==
  ASSUME CatalogTypes, NEW answered, NEW after, Emoji!Told(answered, after)
  PROVE  /\ view' \in [Emoji!Emojis -> {"off", "wait", "failed", "shown"}]
         /\ \A e \in Emoji!Emojis :
              /\ view'[e] = "wait" => view[e] = "wait" /\ e \notin answered
              /\ view'[e] = "shown" => view[e] = "shown" \/ after[e] = "src"
BY DEF CatalogTypes, Emoji!Told

\* The calls for a pack that wait for the same thing.
LEMMA WaitingCalls ==
  ASSUME CatalogTypes, NEW p \in Packs, NEW at \in {"pack", "asset"}
  PROVE  /\ Emoji!Waiting(p, at) \subseteq Emoji!Emojis
         /\ \A c \in calls : c.at = at /\ Emoji!Pack(c.emoji) = p =>
                               c \in Emoji!Calls(Emoji!Waiting(p, at), at)
         /\ \A c \in Emoji!Calls(Emoji!Waiting(p, at), at) :
              c.at = at /\ c.emoji \in Emoji!Waiting(p, at)
         /\ \A e \in Emoji!Waiting(p, at) : Emoji!Pack(e) = p /\ [emoji |-> e, at |-> at] \in calls
<1>1. \A c \in calls : c = [emoji |-> c.emoji, at |-> c.at] /\ c.emoji \in Emoji!Emojis
  BY DEF CatalogTypes
<1> QED
  BY <1>1 DEF Emoji!Waiting, Emoji!Calls

\* The answer with a pack serves everybody who waited for it, as far as its pictures are known.
LEMMA PackCame ==
  ASSUME CatalogInv, NEW p \in Packs, Emoji!PackLoaded(p) PROVE CatalogInv'
<1> USE DEF CatalogInv
<1> DEFINE waiting == Emoji!Waiting(p, "pack")
           found == {e \in waiting : Emoji!IsIndexed(e)}
           lost == waiting \ found
           late == {e \in found : chunks[p] = "loaded" \/ known[e] = "src"}
           ended == Emoji!Calls(waiting, "pack")
           asked == Emoji!Calls(found \ late, "asset")
<1>1. /\ packs[p] = "pending" /\ packs' = [packs EXCEPT ![p] = "loaded"]
      /\ inPack' = [inPack EXCEPT ![p] = {e \in Emoji!Emojis : Emoji!Pack(e) = p /\ known'[e] = "src"}]
      /\ chunks' = IF found \ late # {} THEN [chunks EXCEPT ![p] = "pending"] ELSE chunks
      /\ held' = IF p \in active \ unanswered THEN held \cup {p} ELSE held
      /\ UNCHANGED <<active, unanswered>>
  BY DEF Emoji!PackLoaded
<1>2. known' = [e \in Emoji!Emojis |-> IF e \in lost THEN "unknown"
                                       ELSE IF e \in late THEN "src" ELSE Emoji!Remembered(p)[e]]
  BY DEF Emoji!PackLoaded
<1>3. calls' = (calls \ ended) \cup asked /\ Emoji!Told(lost \cup late, known')
  <2>1. found \cup lost = waiting
    OBVIOUS
  <2> HIDE DEF found, lost
  <2>2. calls' = (calls \ Emoji!Calls(found \cup lost, "pack")) \cup asked /\ Emoji!Told(lost \cup late, known')
    BY DEF Emoji!PackLoaded, found, lost
  <2> QED
    BY <2>1, <2>2
<1>4. /\ waiting \subseteq Emoji!Emojis
      /\ \A c \in calls : c.at = "pack" /\ Emoji!Pack(c.emoji) = p => c \in ended
      /\ \A c \in ended : c.at = "pack" /\ c.emoji \in waiting
      /\ \A e \in waiting : Emoji!Pack(e) = p /\ [emoji |-> e, at |-> "pack"] \in calls
  BY WaitingCalls
<1>5. \A e \in Emoji!Emojis :
        known'[e] = IF e \in lost THEN "unknown"
                    ELSE IF e \in late THEN "src"
                    ELSE IF Emoji!Pack(e) = p /\ Emoji!IsIndexed(e) /\ known[e] # "src"
                    THEN "indexed" ELSE known[e]
  BY <1>2 DEF Emoji!Remembered
<1>6. /\ \A c \in asked : c.at = "asset" /\ c.emoji \in found \ late
      /\ \A e \in found \ late : [emoji |-> e, at |-> "asset"] \in asked
      /\ asked \subseteq [emoji : Emoji!Emojis, at : {"pack", "asset"}]
  BY <1>4 DEF Emoji!Calls
<1> HIDE DEF ended, asked, waiting
<1>7. CatalogTypes'
  <2>1. known' \in [Emoji!Emojis -> {"unknown", "stub", "indexed", "src"}]
    BY <1>2, <1>5 DEF CatalogTypes
  <2>2. view' \in [Emoji!Emojis -> {"off", "wait", "failed", "shown"}]
    BY <1>3, AllTold
  <2> QED
    BY <1>1, <1>3, <1>6, <2>1, <2>2 DEF CatalogTypes
<1>8. OnlyIndexed'
  BY <1>3, <1>5, <1>6 DEF OnlyIndexed
<1>9. CachedAgree'
  <2>1. \A q \in Packs, e \in Emoji!Emojis : q # p /\ Emoji!Pack(e) = q => known'[e] = known[e]
    BY <1>4, <1>5
  <2> QED
    BY <1>1, <2>1 DEF CachedAgree, CatalogTypes
<1>10. ShownIsKnown'
  <2>1. \A e \in Emoji!Emojis : known[e] = "src" => known'[e] = "src"
    BY <1>5 DEF OnlyIndexed
  <2> QED
    BY <1>3, <2>1, AllTold DEF ShownIsKnown
<1>11. WaitedForIsCalled'
  <2>1. ASSUME NEW e \in Emoji!Emojis, view'[e] = "wait"
        PROVE  \E at \in {"pack", "asset"} : [emoji |-> e, at |-> at] \in calls'
    <3>1. view[e] = "wait" /\ e \notin lost /\ e \notin late
      BY <1>3, <2>1, AllTold
    <3>2. PICK at \in {"pack", "asset"} : [emoji |-> e, at |-> at] \in calls
      BY <3>1 DEF WaitedForIsCalled
    <3>3. CASE e \in waiting
      BY <1>3, <1>6, <3>1, <3>3
    <3>4. CASE e \notin waiting
      BY <1>3, <1>4, <3>2, <3>4
    <3> QED
      BY <3>3, <3>4
  <2> QED
    BY <2>1 DEF WaitedForIsCalled
<1>12. CallsAreLoading'
  <2>1. ASSUME NEW c \in calls', c.at = "pack" PROVE packs'[Emoji!Pack(c.emoji)] = "pending"
    <3>1. c \in calls /\ c \notin ended /\ Emoji!Pack(c.emoji) # p
      BY <1>3, <1>4, <1>6, <2>1
    <3> QED
      BY <1>1, <2>1, <3>1 DEF CallsAreLoading, CatalogTypes
  <2>2. ASSUME NEW c \in calls', c.at = "asset" PROVE chunks'[Emoji!Pack(c.emoji)] = "pending"
    <3>1. CASE c \in calls
      BY <1>1, <2>2, <3>1 DEF CallsAreLoading, CatalogTypes
    <3>2. CASE c \in asked
      <4>1. c.emoji \in found \ late /\ Emoji!Pack(c.emoji) = p
        BY <1>4, <1>6, <3>2
      <4> QED
        BY <1>1, <4>1 DEF CatalogTypes
    <3> QED
      BY <1>3, <2>2, <3>1, <3>2
  <2> QED
    BY <2>1, <2>2 DEF CallsAreLoading
<1>13. PickerIsServed'
  BY <1>1 DEF PickerIsServed, CatalogTypes
<1> QED
  BY <1>7, <1>8, <1>9, <1>10, <1>11, <1>12, <1>13

\* A pack that is refused: those who waited for it are told, and no call of theirs is left.
LEMMA PackFailed ==
  ASSUME CatalogInv, NEW p \in Packs, Emoji!PackRefused(p) PROVE CatalogInv'
<1> USE DEF CatalogInv
<1> DEFINE waiting == Emoji!Waiting(p, "pack")
           ended == Emoji!Calls(waiting, "pack")
<1>1. /\ packs' = [packs EXCEPT ![p] = "none"] /\ calls' = calls \ ended
      /\ Emoji!Told(waiting, known)
      /\ unanswered' = IF p \in active THEN unanswered \cup {p} ELSE unanswered
      /\ UNCHANGED <<known, inPack, chunks, active, held>>
  BY DEF Emoji!PackRefused
<1>2. /\ \A c \in calls : c.at = "pack" /\ Emoji!Pack(c.emoji) = p => c \in ended
      /\ \A c \in ended : c.at = "pack" /\ c.emoji \in waiting
  BY WaitingCalls
<1> HIDE DEF waiting, ended
<1>3. CatalogTypes'
  BY <1>1, AllTold DEF CatalogTypes
<1>4. OnlyIndexed' /\ CachedAgree'
  BY <1>1 DEF OnlyIndexed, CachedAgree, CatalogTypes
<1>5. ShownIsKnown'
  BY <1>1, AllTold DEF ShownIsKnown
<1>6. WaitedForIsCalled'
  BY <1>1, <1>2, AllTold DEF WaitedForIsCalled
<1>7. CallsAreLoading'
  BY <1>1, <1>2 DEF CallsAreLoading, CatalogTypes
<1>8. PickerIsServed'
  BY <1>1 DEF PickerIsServed, CatalogTypes
<1> QED
  BY <1>3, <1>4, <1>5, <1>6, <1>7, <1>8

\* The pictures of a pack: who asked for one of them is served.
LEMMA ChunkCame ==
  ASSUME CatalogInv, NEW p \in Packs, Emoji!ChunkLoaded(p) PROVE CatalogInv'
<1> USE DEF CatalogInv
<1> DEFINE found == Emoji!Waiting(p, "asset")
           ended == Emoji!Calls(found, "asset")
<1>1. /\ chunks' = [chunks EXCEPT ![p] = "loaded"] /\ calls' = calls \ ended
      /\ known' = [e \in Emoji!Emojis |-> IF e \in found THEN "src" ELSE known[e]]
      /\ Emoji!Told(found, known')
      /\ UNCHANGED <<packs, active, held, unanswered>>
  BY DEF Emoji!ChunkLoaded
<1>2. inPack' = IF packs[p] = "loaded" THEN [inPack EXCEPT ![p] = @ \cup found] ELSE inPack
  BY DEF Emoji!ChunkLoaded, Emoji!Patched
<1>3. /\ found \subseteq Emoji!Emojis
      /\ \A c \in calls : c.at = "asset" /\ Emoji!Pack(c.emoji) = p => c \in ended
      /\ \A c \in ended : c.at = "asset" /\ c.emoji \in found
      /\ \A e \in found : Emoji!Pack(e) = p /\ [emoji |-> e, at |-> "asset"] \in calls
  BY WaitingCalls
<1> HIDE DEF found, ended
<1>4. CatalogTypes'
  BY <1>1, <1>2, <1>3, AllTold DEF CatalogTypes
<1>5. OnlyIndexed'
  BY <1>1, <1>3 DEF OnlyIndexed
<1>6. CachedAgree'
  <2>1. ASSUME NEW q \in Packs, packs'[q] = "loaded"
        PROVE  inPack'[q] = {e \in Emoji!Emojis : Emoji!Pack(e) = q /\ known'[e] = "src"}
    <3>1. inPack[q] = {e \in Emoji!Emojis : Emoji!Pack(e) = q /\ known[e] = "src"}
      BY <1>1, <2>1 DEF CachedAgree
    <3>2. \A e \in Emoji!Emojis : known'[e] = IF e \in found THEN "src" ELSE known[e]
      BY <1>1
    <3>3. CASE q = p
      <4>1. inPack'[q] = inPack[q] \cup found
        BY <1>1, <1>2, <2>1, <3>3 DEF CatalogTypes
      <4> QED
        BY <1>3, <3>1, <3>2, <3>3, <4>1
    <3>4. CASE q # p
      <4>1. inPack'[q] = inPack[q]
        BY <1>2, <3>4 DEF CatalogTypes
      <4> QED
        BY <1>3, <3>1, <3>2, <3>4, <4>1
    <3> QED
      BY <3>3, <3>4
  <2> QED
    BY <2>1 DEF CachedAgree
<1>7. ShownIsKnown'
  BY <1>1, AllTold DEF ShownIsKnown
<1>8. WaitedForIsCalled'
  BY <1>1, <1>3, AllTold DEF WaitedForIsCalled
<1>9. CallsAreLoading'
  BY <1>1, <1>3 DEF CallsAreLoading, CatalogTypes
<1>10. PickerIsServed'
  BY <1>1 DEF PickerIsServed
<1> QED
  BY <1>4, <1>5, <1>6, <1>7, <1>8, <1>9, <1>10

\* Pictures that are refused: those who waited are told, and no call of theirs is left.
LEMMA ChunkFailed ==
  ASSUME CatalogInv, NEW p \in Packs, Emoji!ChunkRefused(p) PROVE CatalogInv'
<1> USE DEF CatalogInv
<1> DEFINE waiting == Emoji!Waiting(p, "asset")
           ended == Emoji!Calls(waiting, "asset")
<1>1. /\ chunks' = [chunks EXCEPT ![p] = "none"] /\ calls' = calls \ ended
      /\ Emoji!Told(waiting, known)
      /\ UNCHANGED <<known, packs, inPack, active, held, unanswered>>
  BY DEF Emoji!ChunkRefused
<1>2. /\ \A c \in calls : c.at = "asset" /\ Emoji!Pack(c.emoji) = p => c \in ended
      /\ \A c \in ended : c.at = "asset" /\ c.emoji \in waiting
  BY WaitingCalls
<1> HIDE DEF waiting, ended
<1>3. CatalogTypes'
  BY <1>1, AllTold DEF CatalogTypes
<1>4. OnlyIndexed' /\ CachedAgree' /\ PickerIsServed'
  BY <1>1 DEF OnlyIndexed, CachedAgree, PickerIsServed
<1>5. ShownIsKnown'
  BY <1>1, AllTold DEF ShownIsKnown
<1>6. WaitedForIsCalled'
  BY <1>1, <1>2, AllTold DEF WaitedForIsCalled
<1>7. CallsAreLoading'
  BY <1>1, <1>2 DEF CallsAreLoading, CatalogTypes
<1> QED
  BY <1>3, <1>4, <1>5, <1>6, <1>7

\* No step of the catalogue leaves somebody waiting for nothing, or the cached pack and the
\* emoji in disagreement.
LEMMA CatalogStep ==
  ASSUME CatalogInv, Emoji!CatalogNext \/ UNCHANGED catalogVars PROVE CatalogInv'
<1> USE DEF CatalogInv
<1>1. ASSUME NEW e \in Emoji!Emojis, Emoji!Unmount(e) PROVE CatalogInv'
  <2>1. CatalogTypes'
    BY <1>1 DEF Emoji!Unmount, CatalogTypes
  <2>2. OnlyIndexed' /\ CachedAgree' /\ CallsAreLoading' /\ PickerIsServed'
    BY <1>1 DEF Emoji!Unmount, OnlyIndexed, CachedAgree, CallsAreLoading, PickerIsServed
  <2>3. ShownIsKnown' /\ WaitedForIsCalled'
    BY <1>1 DEF Emoji!Unmount, ShownIsKnown, WaitedForIsCalled, CatalogTypes
  <2> QED
    BY <2>1, <2>2, <2>3
<1>2. ASSUME NEW p \in Packs, Emoji!ChoosePack(p) PROVE CatalogInv'
  <2>1. CatalogTypes'
    BY <1>2 DEF Emoji!ChoosePack, CatalogTypes
  <2>2. OnlyIndexed' /\ ShownIsKnown' /\ WaitedForIsCalled'
    BY <1>2 DEF Emoji!ChoosePack, OnlyIndexed, ShownIsKnown, WaitedForIsCalled
  <2>3. CachedAgree' /\ CallsAreLoading' /\ PickerIsServed'
    BY <1>2 DEF Emoji!ChoosePack, CachedAgree, CallsAreLoading, PickerIsServed, CatalogTypes
  <2> QED
    BY <2>1, <2>2, <2>3
<1>3. ASSUME Emoji!ClosePicker PROVE CatalogInv'
  BY <1>3 DEF Emoji!ClosePicker, CatalogTypes, OnlyIndexed, CachedAgree, ShownIsKnown,
              WaitedForIsCalled, CallsAreLoading, PickerIsServed
<1>4. ASSUME UNCHANGED catalogVars PROVE CatalogInv'
  BY <1>4 DEF catalogVars, CatalogTypes, OnlyIndexed, CachedAgree, ShownIsKnown,
              WaitedForIsCalled, CallsAreLoading, PickerIsServed
<1> QED
  BY <1>1, <1>2, <1>3, <1>4, Mounted, PackCame, PackFailed, ChunkCame, ChunkFailed
     DEF Emoji!CatalogNext

------------------------------------------------------------------------------
(* An animated emoji                                                       *)

Tasks == [src : Sources, cancelled : BOOLEAN, at : {"waiting", "data", "dom", "paint"}]
\* The queue: only its first task has begun, and only its last is not cancelled: that one is of
\* the source shown, which it has not drawn before it comes to paint.
InQueue(ts) == ts \in Seq(Tasks) /\ \A i \in 1..Len(ts) : i > 1 => ts[i].at = "waiting"
Live(ts, s, drawn) ==
  \A i \in 1..Len(ts) : ~ts[i].cancelled =>
    i = Len(ts) /\ ts[i].src = s /\ (drawn = 0 <=> ts[i].at # "paint")
\* The number of animations a task is making.
Making(ts) == IF ts # <<>> /\ ts[1].at = "dom" THEN 1 ELSE 0
StickerInv ==
  /\ animated \in Sources /\ visible \in BOOLEAN
  /\ InQueue(tasks) /\ Live(tasks, animated, anim)
  /\ anim \in {0, animated} /\ (playing => visible /\ anim # 0)
  /\ alive = (IF anim # 0 THEN 1 ELSE 0) + Making(tasks)
  /\ poster \in [Sources -> Sources \cup {0}] /\ \A s \in Sources : poster[s] \in {0, s}
  /\ canvases \in Seq({animated})

\* No task, no canvas and no animation at first.
LEMMA StickerInit ==
  ASSUME Emoji!StickerInit PROVE StickerInv
<1>1. InQueue(<<>>) /\ Making(<<>>) = 0 /\ Live(<<>>, animated, 0)
  BY DEF InQueue, Making, Live
<1>2. tasks = <<>> /\ canvases = <<>> /\ animated \in Sources /\ visible = FALSE /\ anim = 0 /\ playing = FALSE
  BY DEF Emoji!StickerInit
<1>3. alive = 0 /\ poster = [s \in Sources |-> 0]
  BY DEF Emoji!StickerInit
<1>4. poster \in [Sources -> Sources \cup {0}] /\ \A s \in Sources : poster[s] \in {0, s}
  BY <1>3
<1>5. canvases \in Seq({animated})
  BY <1>2
<1>6. InQueue(tasks) /\ Live(tasks, animated, anim) /\ Making(tasks) = 0
  BY <1>1, <1>2
<1>7. alive = (IF anim # 0 THEN 1 ELSE 0) + Making(tasks)
  BY <1>2, <1>3, <1>6
<1> QED
  BY <1>2, <1>4, <1>5, <1>6, <1>7 DEF StickerInv

\* A cancelled queue: none of its tasks is live.
LEMMA CancelledQueue ==
  ASSUME NEW ts, InQueue(ts)
  PROVE  LET cs == Emoji!Cancelled(ts)
         IN  /\ InQueue(cs) /\ Making(cs) = Making(ts) /\ Len(cs) = Len(ts)
             /\ \A i \in 1..Len(cs) : cs[i].cancelled
<1> DEFINE cs == Emoji!Cancelled(ts)
<1>1. cs = [i \in 1..Len(ts) |-> [ts[i] EXCEPT !.cancelled = TRUE]]
  BY DEF InQueue, Emoji!Cancelled
<1>2. ASSUME NEW i \in 1..Len(ts)
      PROVE  cs[i] \in Tasks /\ cs[i].at = ts[i].at /\ cs[i].cancelled
  <2>1. ts[i] \in Tasks /\ cs[i] = [ts[i] EXCEPT !.cancelled = TRUE]
    BY <1>1 DEF InQueue
  <2> HIDE DEF cs
  <2> QED
    BY <2>1 DEF Tasks
<1>3. cs \in Seq(Tasks) /\ Len(cs) = Len(ts)
  BY <1>1, <1>2 DEF InQueue
<1> HIDE DEF cs
<1>4. Making(cs) = Making(ts)
  BY <1>2, <1>3 DEF InQueue, Making
<1> QED
  BY <1>2, <1>3, <1>4 DEF InQueue, cs

\* A task is asked for only while nothing is drawn.
LEMMA Asked ==
  ASSUME NEW ts, InQueue(ts), \A i \in 1..Len(ts) : ts[i].cancelled,
         NEW s \in Sources, NEW seen, NEW drawn, NEW waiting, NEW broken,
         Emoji!Asks(s, seen, drawn, waiting, broken, ts)
  PROVE  InQueue(tasks') /\ Live(tasks', s, drawn) /\ Making(tasks') = Making(ts)
<1>1. CASE tasks' = ts
  BY <1>1 DEF Live
<1>2. CASE drawn = 0 /\ tasks' = Append(ts, [src |-> s, cancelled |-> FALSE, at |-> "waiting"])
  <2> DEFINE new == [src |-> s, cancelled |-> FALSE, at |-> "waiting"]
  <2>1. new \in Tasks /\ new.src = s /\ new.at = "waiting"
    BY DEF Tasks
  <2> HIDE DEF new
  <2>2. /\ tasks' \in Seq(Tasks) /\ Len(tasks') = Len(ts) + 1 /\ tasks'[Len(ts) + 1] = new
        /\ \A i \in 1..Len(ts) : tasks'[i] = ts[i]
    BY <1>2, <2>1 DEF InQueue, new
  <2>3. InQueue(tasks')
    BY <2>1, <2>2 DEF InQueue
  <2>4. Live(tasks', s, drawn)
    BY <1>2, <2>1, <2>2 DEF InQueue, Live
  <2>5. Making(tasks') = Making(ts)
    <3>1. CASE ts = <<>>
      BY <2>1, <2>2, <3>1 DEF Making
    <3>2. CASE ts # <<>>
      BY <2>2, <3>2 DEF Making, InQueue
    <3> QED
      BY <3>1, <3>2
  <2> QED
    BY <2>3, <2>4, <2>5
<1> QED
  BY <1>1, <1>2 DEF Emoji!Asks

\* The next task has not begun.
LEMMA Finished ==
  ASSUME InQueue(tasks), tasks # <<>>, tasks' = Tail(tasks),
         NEW s, NEW drawn, Live(tasks, s, drawn)
  PROVE  InQueue(tasks') /\ Making(tasks') = 0 /\ Live(tasks', s, drawn)
<1>1. /\ tasks' \in Seq(Tasks) /\ Len(tasks') = Len(tasks) - 1
      /\ \A i \in 1..Len(tasks') : tasks'[i] = tasks[i + 1]
  BY DEF InQueue
<1>2. InQueue(tasks')
  BY <1>1 DEF InQueue
<1>3. Making(tasks') = 0
  BY <1>1 DEF InQueue, Making
<1>4. ASSUME NEW i \in 1..Len(tasks'), ~tasks'[i].cancelled
      PROVE  i = Len(tasks') /\ tasks'[i].src = s /\ (drawn = 0 <=> tasks'[i].at # "paint")
  <2>1. i + 1 \in 1..Len(tasks) /\ tasks'[i] = tasks[i + 1]
    BY <1>1 DEF InQueue
  <2>2. i + 1 = Len(tasks) /\ tasks[i + 1].src = s /\ (drawn = 0 <=> tasks[i + 1].at # "paint")
    BY <1>4, <2>1 DEF Live
  <2>3. Len(tasks) \in Nat /\ i \in Int
    BY DEF InQueue
  <2>4. i = Len(tasks) - 1
    BY <2>2, <2>3
  <2>5. i = Len(tasks')
    BY <1>1, <2>4, Zenon
  <2> QED
    BY <2>1, <2>2, <2>5, Zenon
<1>5. Live(tasks', s, drawn)
  BY <1>4 DEF Live
<1> QED
  BY <1>2, <1>3, <1>5

\* A task that goes on stays in its place.
LEMMA Advanced ==
  ASSUME InQueue(tasks), tasks # <<>>, NEW at \in {"data", "dom", "paint"}, Emoji!Advance(at)
  PROVE  /\ InQueue(tasks') /\ Len(tasks') = Len(tasks) /\ Len(tasks) > 0
         /\ Making(tasks') = IF at = "dom" THEN 1 ELSE 0
         /\ tasks'[1].at = at /\ tasks'[1].cancelled = tasks[1].cancelled
         /\ tasks'[1].src = tasks[1].src /\ \A i \in 2..Len(tasks) : tasks'[i] = tasks[i]
<1>1. Len(tasks) > 0 /\ tasks[1] \in Tasks
  BY DEF InQueue
<1>2. tasks' = [tasks EXCEPT ![1] = [tasks[1] EXCEPT !.at = at]]
  BY DEF Emoji!Advance
<1> DEFINE next == [tasks[1] EXCEPT !.at = at]
<1>3. next \in Tasks /\ next.at = at /\ next.cancelled = tasks[1].cancelled /\ next.src = tasks[1].src
  BY <1>1 DEF Tasks
<1> HIDE DEF next
<1>4. tasks' \in Seq(Tasks) /\ Len(tasks') = Len(tasks)
  BY <1>1, <1>2, <1>3 DEF InQueue, next
<1>5. tasks'[1] = next /\ \A i \in 2..Len(tasks) : tasks'[i] = tasks[i]
  BY <1>1, <1>2 DEF InQueue, next
<1>6. InQueue(tasks')
  BY <1>4, <1>5 DEF InQueue
<1>7. Making(tasks') = IF at = "dom" THEN 1 ELSE 0
  BY <1>1, <1>3, <1>4, <1>5 DEF Making
<1> QED
  BY <1>1, <1>3, <1>4, <1>5, <1>6, <1>7

\* Hiding, showing and giving another source leak no animation, and no poster is of another source.
LEMMA StickerStep ==
  ASSUME Emoji!StickersAssumption, StickerInv, Emoji!StickerNext \/ UNCHANGED stickerVars
  PROVE  StickerInv'
<1> USE DEF StickerInv
<1>0. 0 \notin Sources
  BY DEF Emoji!StickersAssumption
<1>1. ASSUME NEW seen \in BOOLEAN, Emoji!See(seen) PROVE StickerInv'
  <2> DEFINE cs == Emoji!Cancelled(tasks)
  <2>1. InQueue(cs) /\ Making(cs) = Making(tasks) /\ \A i \in 1..Len(cs) : cs[i].cancelled
    BY CancelledQueue
  <2> HIDE DEF cs
  <2>2. Emoji!Asks(animated, seen, anim, queued, failed, cs)
    BY <1>1 DEF Emoji!See, cs
  <2>3. InQueue(tasks') /\ Live(tasks', animated, anim) /\ Making(tasks') = Making(tasks)
    BY <2>1, <2>2, Asked
  <2>4. /\ visible' = seen /\ playing' = (anim # 0 /\ seen)
        /\ UNCHANGED <<animated, anim, poster, alive, canvases>>
    BY <1>1 DEF Emoji!See
  <2> QED
    BY <2>3, <2>4
<1>2. ASSUME NEW s \in Sources, Emoji!Given(s) PROVE StickerInv'
  <2> DEFINE cs == Emoji!Cancelled(tasks)
  <2>1. InQueue(cs) /\ Making(cs) = Making(tasks) /\ \A i \in 1..Len(cs) : cs[i].cancelled
    BY CancelledQueue
  <2> HIDE DEF cs
  <2>2. Emoji!Asks(s, visible, 0, 0, failed, cs)
    BY <1>2 DEF Emoji!Given, cs
  <2>3. InQueue(tasks') /\ Live(tasks', s, 0) /\ Making(tasks') = Making(tasks)
    BY <2>1, <2>2, Asked
  <2>4. /\ animated' = s /\ anim' = 0 /\ playing' = FALSE /\ canvases' = <<>>
        /\ alive' = (IF anim # 0 THEN alive - 1 ELSE alive) /\ UNCHANGED <<visible, poster>>
    BY <1>2 DEF Emoji!Given
  <2>5. canvases' \in Seq({animated'}) /\ Making(tasks) \in {0, 1}
    BY <2>4 DEF Making
  <2>6. alive' = (IF anim' # 0 THEN 1 ELSE 0) + Making(tasks')
    BY <2>3, <2>4, <2>5
  <2> QED
    BY <2>3, <2>4, <2>5, <2>6
<1>3. ASSUME Emoji!TaskStarts PROVE StickerInv'
  <2>1. /\ tasks # <<>> /\ tasks[1].at = "waiting"
        /\ tasks' = Tail(tasks) \/ Emoji!Advance("data")
        /\ UNCHANGED <<animated, visible, anim, playing, poster, alive, canvases>>
    BY <1>3 DEF Emoji!TaskStarts, Emoji!TaskIs, Emoji!Task, Emoji!Finish
  <2>2. Making(tasks) = 0
    BY <2>1 DEF Making
  <2>3. CASE tasks' = Tail(tasks)
    BY <2>1, <2>2, <2>3, Finished
  <2>4. CASE Emoji!Advance("data")
    <3>1. InQueue(tasks') /\ Making(tasks') = 0 /\ Live(tasks', animated, anim)
      BY <2>1, <2>4, Advanced DEF Live
    <3> QED
      BY <2>1, <2>2, <3>1
  <2> QED
    BY <2>1, <2>3, <2>4
<1>4. ASSUME Emoji!DataArrives PROVE StickerInv'
  <2>1. /\ tasks # <<>> /\ tasks[1].at = "data"
        /\ UNCHANGED <<animated, visible, anim, playing, poster>>
        /\ \/ tasks' = Tail(tasks) /\ UNCHANGED <<alive, canvases>>
           \/ /\ ~tasks[1].cancelled /\ Emoji!Advance("dom") /\ alive' = alive + 1
              /\ canvases' = Append(canvases, tasks[1].src)
    BY <1>4 DEF Emoji!DataArrives, Emoji!TaskIs, Emoji!Task, Emoji!Finish
  <2>2. Making(tasks) = 0
    BY <2>1 DEF Making
  <2>3. CASE tasks' = Tail(tasks) /\ UNCHANGED <<alive, canvases>>
    BY <2>1, <2>2, <2>3, Finished
  <2>4. CASE /\ ~tasks[1].cancelled /\ Emoji!Advance("dom") /\ alive' = alive + 1
             /\ canvases' = Append(canvases, tasks[1].src)
    <3>1. InQueue(tasks') /\ Making(tasks') = 1 /\ Live(tasks', animated, anim) /\ Len(tasks) > 0
      BY <2>1, <2>4, Advanced DEF Live
    <3>2. tasks[1].src = animated
      BY <2>4, <3>1 DEF InQueue, Live
    <3>3. canvases' \in Seq({animated})
      BY <2>4, <3>2
    <3>4. alive' = (IF anim' # 0 THEN 1 ELSE 0) + Making(tasks')
      BY <2>1, <2>2, <2>4, <3>1
    <3> QED
      BY <2>1, <3>1, <3>3, <3>4
  <2> QED
    BY <2>1, <2>3, <2>4
<1>5. ASSUME Emoji!DataRefused PROVE StickerInv'
  <2>1. /\ tasks # <<>> /\ tasks[1].at = "data" /\ tasks' = Tail(tasks)
        /\ UNCHANGED <<animated, visible, anim, playing, poster, alive, canvases>>
    BY <1>5 DEF Emoji!DataRefused, Emoji!TaskIs, Emoji!Task, Emoji!Finish
  <2>2. Making(tasks) = 0
    BY <2>1 DEF Making
  <2> QED
    BY <2>1, <2>2, Finished
<1>6. ASSUME Emoji!DomReady PROVE StickerInv'
  <2>1. /\ tasks # <<>> /\ tasks[1].at = "dom" /\ UNCHANGED <<animated, visible, playing>>
        /\ \/ /\ tasks' = Tail(tasks) /\ alive' = alive - 1 /\ UNCHANGED <<anim, poster>>
              /\ canvases' = SubSeq(canvases, 1, Len(canvases) - 1)
           \/ /\ ~tasks[1].cancelled /\ anim' = tasks[1].src /\ Emoji!Advance("paint")
              /\ UNCHANGED <<alive, canvases>>
              /\ poster' = IF canvases # <<>> THEN [poster EXCEPT ![tasks[1].src] = canvases[1]]
                           ELSE poster
    BY <1>6 DEF Emoji!DomReady, Emoji!TaskIs, Emoji!Task, Emoji!Finish
  <2>2. Making(tasks) = 1
    BY <2>1 DEF Making
  <2>3. CASE /\ tasks' = Tail(tasks) /\ alive' = alive - 1 /\ UNCHANGED <<anim, poster>>
             /\ canvases' = SubSeq(canvases, 1, Len(canvases) - 1)
    <3>1. canvases' \in Seq({animated})
      BY <2>3
    <3>2. InQueue(tasks') /\ Making(tasks') = 0 /\ Live(tasks', animated, anim)
      BY <2>1, <2>3, Finished
    <3>3. alive' = (IF anim # 0 THEN 1 ELSE 0) + Making(tasks')
      BY <2>2, <2>3, <3>2
    <3> QED
      BY <2>1, <2>3, <3>1, <3>2, <3>3
  <2>4. CASE /\ ~tasks[1].cancelled /\ anim' = tasks[1].src /\ Emoji!Advance("paint")
             /\ UNCHANGED <<alive, canvases>>
             /\ poster' = IF canvases # <<>> THEN [poster EXCEPT ![tasks[1].src] = canvases[1]]
                          ELSE poster
    <3>1. /\ InQueue(tasks') /\ Making(tasks') = 0 /\ Len(tasks) > 0 /\ Len(tasks') = Len(tasks)
          /\ tasks'[1].at = "paint" /\ tasks'[1].cancelled = tasks[1].cancelled
          /\ tasks'[1].src = tasks[1].src
      BY <2>1, <2>4, Advanced
    <3>2. 1 = Len(tasks) /\ tasks[1].src = animated /\ anim = 0
      BY <2>1, <2>4, <3>1 DEF InQueue, Live
    <3>3. anim' = animated /\ anim' # 0 /\ Live(tasks', animated, anim')
      BY <1>0, <2>4, <3>1, <3>2 DEF Live
    <3>4. canvases # <<>> => canvases[1] = animated
      OBVIOUS
    <3>5. poster' \in [Sources -> Sources \cup {0}] /\ \A s \in Sources : poster'[s] \in {0, s}
      BY <2>4, <3>2, <3>4
    <3>6. alive' = (IF anim' # 0 THEN 1 ELSE 0) + Making(tasks')
      BY <2>2, <2>4, <3>1, <3>2, <3>3
    <3> QED
      BY <2>1, <2>4, <3>1, <3>2, <3>3, <3>5, <3>6
  <2> QED
    BY <2>1, <2>3, <2>4
<1>7. ASSUME Emoji!Painted PROVE StickerInv'
  <2>1. /\ tasks # <<>> /\ tasks[1].at = "paint" /\ tasks' = Tail(tasks)
        /\ playing' = IF tasks[1].cancelled THEN playing ELSE visible
        /\ UNCHANGED <<animated, visible, anim, poster, alive, canvases>>
    BY <1>7 DEF Emoji!Painted, Emoji!TaskIs, Emoji!Task, Emoji!Finish
  <2>2. Making(tasks) = 0
    BY <2>1 DEF Making
  <2>3. Len(tasks) > 0
    BY <2>1 DEF InQueue
  <2>4. ~tasks[1].cancelled => anim # 0
    BY <2>1, <2>3 DEF InQueue, Live
  <2> QED
    BY <2>1, <2>2, <2>4, Finished
<1>8. ASSUME UNCHANGED stickerVars PROVE StickerInv'
  BY <1>8 DEF stickerVars
<1> QED
  BY <1>1, <1>2, <1>3, <1>4, <1>5, <1>6, <1>7, <1>8 DEF Emoji!StickerNext

------------------------------------------------------------------------------
(* The grid of the picker                                                  *)

Grids == [width : Nat, height : Nat, top : Nat]
GridInv == screen \in Grids /\ count \in Nat /\ (~frame => drawnFor = screen)

\* The grid begins drawn for the size it has.
LEMMA GridInit ==
  ASSUME Emoji!StickersAssumption, Emoji!GridInit PROVE GridInv
BY DEF Emoji!StickersAssumption, Emoji!GridInit, GridInv, Grids

\* Every change of size, place or number asks for a frame, which draws for what is seen.
LEMMA GridStep ==
  ASSUME Emoji!StickersAssumption, GridInv, Emoji!GridNext \/ UNCHANGED cellVars PROVE GridInv'
<1>1. ASSUME NEW g \in [width : ScreenWidths, height : Heights, top : Tops], Emoji!Scroll(g)
      PROVE  GridInv'
  BY <1>1 DEF Emoji!Scroll, Emoji!StickersAssumption, GridInv, Grids
<1>2. ASSUME NEW n \in Counts, Emoji!Fill(n) PROVE GridInv'
  <2>1. n \in Nat
    BY DEF Emoji!StickersAssumption
  <2> QED
    BY <1>2, <2>1 DEF Emoji!Fill, GridInv, Grids
<1>3. ASSUME Emoji!Frame PROVE GridInv'
  BY <1>3 DEF Emoji!Frame, GridInv
<1>4. ASSUME UNCHANGED cellVars PROVE GridInv'
  BY <1>4 DEF cellVars, GridInv
<1> QED
  BY <1>1, <1>2, <1>3, <1>4 DEF Emoji!GridNext

\* A product is not less than one by a smaller number.
LEMMA Product ==
  ASSUME NEW m \in Int, NEW n \in Int, m <= n, NEW b \in Nat PROVE m * b <= n * b
<1>1. PICK d \in Nat : n = m + d
  <2>1. n - m \in Nat /\ n = m + (n - m)
    OBVIOUS
  <2> QED
    BY <2>1
<1>2. (m + d) * b = m * b + d * b /\ d * b >= 0
  BY SMTT(20)
<1>3. m * b \in Int /\ d * b \in Int
  OBVIOUS
<1> QED
  BY <1>1, <1>2, <1>3

\* The quotient is the greatest number of times b fits into a.
LEMMA Quotient ==
  ASSUME NEW a \in Nat, NEW b \in Nat \ {0}
  PROVE  a \div b \in Nat /\ (a \div b) * b <= a /\ a < (a \div b) * b + b
BY SMTT(20)

\* k times b fits into a as often as the quotient says.
LEMMA FitsIn ==
  ASSUME NEW a \in Nat, NEW b \in Nat \ {0}, NEW k \in Nat
  PROVE  /\ k * b <= a => k <= a \div b
         /\ a < k * b => a \div b < k
<1> DEFINE q == a \div b
<1>1. q \in Nat /\ q * b <= a /\ a < q * b + b /\ (q + 1) * b = q * b + b
  BY Quotient, SMTT(20)
<1>2. k * b \in Int /\ q * b \in Int
  BY <1>1
<1> HIDE DEF q
<1>3. ASSUME k * b <= a, q + 1 <= k PROVE FALSE
  <2>1. (q + 1) * b <= k * b
    BY <1>1, <1>3, Product
  <2> QED
    BY <1>1, <1>2, <1>3, <2>1
<1>4. ASSUME a < k * b, k <= q PROVE FALSE
  <2>1. k * b <= q * b
    BY <1>1, <1>4, Product
  <2> QED
    BY <1>1, <1>2, <1>4, <2>1
<1> QED
  BY <1>1, <1>3, <1>4 DEF q

\* A row holds at least one cell.
LEMMA ColumnsAre ==
  ASSUME Emoji!StickersAssumption, NEW w \in Nat
  PROVE  /\ Emoji!Columns(w) \in Nat \ {0} /\ Emoji!Stride(w) \in Nat \ {0}
         /\ Emoji!Cell(w) \in Int /\ Emoji!Cell(w) <= Emoji!Stride(w)
<1>1. Gap \in Nat /\ MinCell \in Nat \ {0}
  BY DEF Emoji!StickersAssumption
<1>2. Emoji!Columns(w) \in Nat \ {0}
  <2>1. CASE w = 0 \/ w < MinCell
    BY <2>1 DEF Emoji!Columns
  <2>2. CASE w # 0 /\ ~(w < MinCell)
    <3>1. w + Gap \in Nat /\ MinCell + Gap \in Nat \ {0} /\ 1 * (MinCell + Gap) <= w + Gap
      BY <1>1, <2>2
    <3>2. (w + Gap) \div (MinCell + Gap) \in Nat /\ 1 <= (w + Gap) \div (MinCell + Gap)
      BY <3>1, Quotient, FitsIn
    <3> QED
      BY <2>2, <3>2 DEF Emoji!Columns
  <2> QED
    BY <2>1, <2>2
<1>3. Emoji!Stride(w) \in Nat \ {0}
  BY <1>1 DEF Emoji!Stride
<1>4. Gap * Emoji!Columns(w) \in Nat
  BY <1>1, <1>2, SMTT(20)
<1> QED
  BY <1>2, <1>3, <1>4 DEF Emoji!Cell

\* What is on the screen is drawn, within the height of the list.
LEMMA GridDraws ==
  ASSUME Emoji!StickersAssumption, GridInv PROVE Emoji!TheVisibleIsDrawn
<1> DEFINE w == screen.width
           cols == Emoji!Columns(w)
           stride == Emoji!Stride(w)
           rows == Emoji!Rows(w, count)
           from == screen.top * cols
           to == (screen.top + screen.height) * cols
<1> SUFFICES ASSUME ~frame, NEW i \in 0..count - 1
             PROVE  LET row == Emoji!RowOf(i, w)
                        above == row * stride
                    IN  /\ (above < to /\ above + Emoji!Cell(w) > from)
                             => i \in Emoji!Items(drawnFor, count)
                        /\ above + Emoji!Cell(w) <= Emoji!TotalHeight(w, count)
  BY DEF Emoji!TheVisibleIsDrawn
<1> DEFINE row == Emoji!RowOf(i, w)
           above == row * stride
<1>1. /\ w \in Nat /\ screen.top \in Nat /\ screen.height \in Nat /\ count \in Nat /\ i \in Nat
      /\ drawnFor = screen /\ count > 0 /\ Overscan \in Nat
  BY DEF GridInv, Grids, Emoji!StickersAssumption
<1>2. /\ cols \in Nat \ {0} /\ stride \in Nat \ {0}
      /\ Emoji!Cell(w) = stride - Gap * cols /\ Emoji!Cell(w) <= stride /\ Emoji!Cell(w) \in Int
  BY <1>1, ColumnsAre DEF Emoji!Cell
<1>3. from \in Nat /\ to \in Nat
  BY <1>1, <1>2, SMTT(20)
<1> HIDE DEF w, cols, stride, from, to
<1>4. row \in Nat /\ row * cols <= i
  BY <1>1, <1>2, Quotient DEF Emoji!RowOf, cols
<1>5. rows \in Nat /\ row + 1 <= rows
  <2>1. count + cols - 1 \in Nat /\ (row + 1) * cols = row * cols + cols /\ row * cols \in Int
    BY <1>1, <1>2, <1>4, SMTT(20)
  <2>2. (row + 1) * cols <= count + cols - 1
    BY <1>1, <1>2, <1>4, <2>1
  <2>3. row + 1 <= (count + cols - 1) \div cols /\ (count + cols - 1) \div cols \in Nat
    BY <1>2, <1>4, <2>1, <2>2, FitsIn, Quotient
  <2> QED
    BY <2>3 DEF Emoji!Rows, cols
<1> HIDE DEF row, rows
<1>6. above \in Nat /\ (row + 1) * stride = above + stride
  BY <1>2, <1>4, SMTT(20)
<1>7. above + Emoji!Cell(w) <= Emoji!TotalHeight(w, count)
  <2>1. (row + 1) * stride <= rows * stride
    BY <1>2, <1>4, <1>5, Product
  <2>2. rows * stride \in Int /\ Gap * cols \in Int
    <3>1. Gap \in Nat
      BY DEF Emoji!StickersAssumption
    <3> QED
      BY <1>2, <1>5, <3>1
  <2>3. Emoji!TotalHeight(w, count) = rows * stride - Gap * cols
    BY <1>1 DEF Emoji!TotalHeight, rows, stride, cols
  <2> HIDE DEF above
  <2> QED
    BY <1>2, <1>6, <2>1, <2>2, <2>3
<1>8. ASSUME above < to, above + Emoji!Cell(w) > from PROVE i \in Emoji!Items(drawnFor, count)
  <2> DEFINE first == Emoji!FirstRow(screen)
             last == Emoji!LastRow(screen)
  <2>1. first = from \div stride /\ last = to \div stride
    BY DEF Emoji!FirstRow, Emoji!LastRow, from, to, stride, cols, w
  <2>2. first \in Nat /\ last \in Nat
    BY <1>2, <1>3, <2>1, Quotient
  <2> HIDE DEF first, last
  <2>3. row <= last
    <3>1. row * stride <= to
      BY <1>3, <1>6, <1>8
    <3>2. row <= to \div stride
      BY <1>2, <1>3, <1>4, <3>1, FitsIn
    <3> QED
      BY <2>1, <3>2
  <2>4. first < row + 1
    <3>1. from < (row + 1) * stride
      <4> HIDE DEF above
      <4> QED
        BY <1>2, <1>3, <1>6, <1>8
    <3>2. row + 1 \in Nat
      BY <1>4
    <3>3. from \div stride < row + 1
      BY <1>2, <1>3, <3>1, <3>2, FitsIn
    <3> QED
      BY <2>1, <3>3
  <2>5. /\ (IF first > Overscan THEN first - Overscan ELSE 0) <= row
        /\ row <= (IF last + Overscan < rows THEN last + Overscan ELSE rows - 1)
    BY <1>1, <1>4, <1>5, <2>2, <2>3, <2>4
  <2> QED
    BY <1>1, <1>4, <1>5, <2>2, <2>5 DEF Emoji!Items, row, rows, first, last, w
<1> QED
  BY <1>7, <1>8 DEF row, above

------------------------------------------------------------------------------
(* Emoji and stickers, as the run has them                                 *)

EmojiInv == CatalogInv /\ StickerInv /\ GridInv

\* The three machines of emoji and stickers in the run.
LEMMA EmojiInit ==
  ASSUME Emoji!StickersAssumption, MCInit PROVE EmojiInv
BY CatalogInit, StickerInit, GridInit DEF EmojiInv, MCInit

\* A step of the run is a step of each of them or leaves it alone.
LEMMA EmojiStep ==
  ASSUME Emoji!StickersAssumption, EmojiInv, [MCNext]_allVars PROVE EmojiInv'
<1>1. Emoji!CatalogNext \/ UNCHANGED catalogVars
  BY DEF MCNext, allVars
<1>2. Emoji!StickerNext \/ UNCHANGED stickerVars
  BY DEF MCNext, allVars
<1>3. Emoji!GridNext \/ UNCHANGED cellVars
  BY DEF MCNext, allVars
<1>4. CatalogInv'
  BY <1>1, CatalogStep DEF EmojiInv
<1>5. StickerInv'
  BY <1>2, StickerStep DEF EmojiInv
<1>6. GridInv'
  BY <1>3, GridStep DEF EmojiInv
<1> QED
  BY <1>4, <1>5, <1>6 DEF EmojiInv

\* The property of the run is part of the invariant.
LEMMA EmojiFollows ==
  ASSUME Emoji!StickersAssumption, EmojiInv PROVE EmojiHold
<1>1. Emoji!PicturesAgree
  BY DEF EmojiInv, CatalogInv, CachedAgree, ShownIsKnown, Emoji!PicturesAgree
<1>2. Emoji!WaitedForIsLoading
  <2>1. \A c \in calls : (IF c.at = "pack" THEN packs ELSE chunks)[Emoji!Pack(c.emoji)] = "pending"
    BY DEF EmojiInv, CatalogInv, CatalogTypes, CallsAreLoading
  <2> QED
    BY <2>1 DEF EmojiInv, CatalogInv, WaitedForIsCalled, PickerIsServed, Emoji!WaitedForIsLoading
<1>3. Emoji!OnlyTheSeenPlays
  BY DEF EmojiInv, StickerInv, Making, Emoji!OnlyTheSeenPlays, Emoji!TaskIs, Emoji!Task
<1>4. Emoji!TheVisibleIsDrawn
  BY GridDraws DEF EmojiInv
<1> QED
  BY <1>1, <1>2, <1>3, <1>4 DEF EmojiHold

------------------------------------------------------------------------------
(* The place of a list                                                     *)

Rows == [id : Nat, size : RowSizes]
Distinct(l) == \A i, j \in 1..Len(l) : l[i].id = l[j].id => i = j
IsList(l) == l \in Seq(Rows) /\ Distinct(l)
AnchorInv ==
  /\ IsList(list) /\ scroll \in 0..Anchor!MaxScroll(list)
  /\ snapshot = Anchor!CaptureSnapshot(list, scroll) /\ prepending \in BOOLEAN

\* The numbers up to n are n numbers.
LEMMA Interval ==
  ASSUME NEW n \in Int PROVE IsFiniteSet(1..n) /\ (n \in Nat => Cardinality(1..n) = n)
BY FS_Interval

\* The height of a list is a number: the lines of finitely many rows.
LEMMA HeightIs ==
  ASSUME Anchor!AnchorAssumption, NEW l \in Seq(Rows) PROVE Anchor!Height(l) \in Nat
<1> DEFINE lines == [i \in 1..Len(l) |-> {i} \X (1..l[i].size)]
           all == {{i} \X (1..l[i].size) : i \in DOMAIN l}
<1>1. ASSUME NEW i \in 1..Len(l) PROVE IsFiniteSet({i} \X (1..l[i].size))
  <2>1. l[i] \in Rows
    OBVIOUS
  <2>2. l[i].size \in RowSizes
    BY <2>1 DEF Rows
  <2>3. IsFiniteSet({i})
    BY FS_Singleton
  <2> HIDE DEF lines, all
  <2>4. l[i].size \in Int
    <3>1. \A n \in RowSizes : n \in Int
      BY DEF Anchor!AnchorAssumption
    <3> QED
      BY <2>2, <3>1
  <2>5. IsFiniteSet(1..l[i].size)
    BY <2>4, Interval
  <2> QED
    BY <2>3, <2>5, FS_Product
<1>2. DOMAIN l = 1..Len(l) /\ IsFiniteSet(1..Len(l))
  BY Interval
<1>3. lines \in Surjection(1..Len(l), all)
  BY <1>2 DEF Surjection
<1>4. \A T \in all : IsFiniteSet(T)
  BY <1>1, <1>2
<1> HIDE DEF all, lines
<1>5. IsFiniteSet(all)
  BY <1>2, <1>3, FS_Surjection
<1>6. IsFiniteSet(UNION all)
  BY <1>4, <1>5, FS_UNION
<1>7. Anchor!Height(l) = Cardinality(UNION all)
  BY DEF Anchor!Height, all, Anchor!Cardinality, Cardinality
<1> QED
  BY <1>6, <1>7, FS_CardinalityType

\* The bottom of a message moves against the scrolling.
LEMMA BottomIs ==
  ASSUME Anchor!AnchorAssumption, NEW l \in Seq(Rows), NEW i \in 1..Len(l), NEW at \in Int
  PROVE  /\ Anchor!BottomOf(i, l, at) \in Int
         /\ \A to \in Int : Anchor!BottomOf(i, l, to) = Anchor!BottomOf(i, l, at) + at - to
<1>1. SubSeq(l, 1, i) \in Seq(Rows)
  OBVIOUS
<1>2. Anchor!Height(SubSeq(l, 1, i)) \in Nat
  BY <1>1, HeightIs
<1> QED
  BY <1>2 DEF Anchor!BottomOf

\* Scrolling stays within the list, and changes nothing where that is so already.
LEMMA WithinIs ==
  ASSUME Anchor!AnchorAssumption, NEW l \in Seq(Rows), NEW at \in Int
  PROVE  /\ Anchor!MaxScroll(l) \in Nat /\ Anchor!Within(at, l) \in 0..Anchor!MaxScroll(l)
         /\ at \in 0..Anchor!MaxScroll(l) => Anchor!Within(at, l) = at
         /\ Anchor!Within(at, l) \notin {0, Anchor!MaxScroll(l)} => Anchor!Within(at, l) = at
<1>1. Anchor!Height(l) \in Nat /\ View \in Nat
  BY HeightIs DEF Anchor!AnchorAssumption
<1> QED
  BY <1>1 DEF Anchor!MaxScroll, Anchor!Within

\* At most one message is the lowest that is seen.
LEMMA SnapshotIs ==
  ASSUME Anchor!AnchorAssumption, NEW l, IsList(l), NEW at \in Int
  PROVE  LET s == Anchor!CaptureSnapshot(l, at)
         IN  /\ s.atBottom = (Anchor!GetBottomDistance(l, at) <= Threshold)
             /\ s.height = Anchor!Height(l) /\ s.bottom \in Int
             /\ \A i \in Anchor!Lowest(l, at) : s.anchor = l[i].id /\ s.bottom = Anchor!BottomOf(i, l, at)
<1> DEFINE seen == Anchor!Lowest(l, at)
           low == CHOOSE j \in seen : TRUE
<1>1. l \in Seq(Rows) /\ DOMAIN l = 1..Len(l)
  BY DEF IsList
<1>2. seen \subseteq 1..Len(l)
  BY <1>1 DEF Anchor!Lowest
<1>3. ASSUME NEW i \in seen, NEW j \in seen PROVE i = j
  BY <1>1, <1>2 DEF Anchor!Lowest
<1>4. Anchor!CaptureSnapshot(l, at) =
        [anchor |-> IF seen = {} THEN 0 ELSE l[low].id,
         bottom |-> IF seen = {} THEN 0 ELSE Anchor!BottomOf(low, l, at),
         atBottom |-> Anchor!GetBottomDistance(l, at) <= Threshold,
         height |-> Anchor!Height(l)]
  BY DEF Anchor!CaptureSnapshot
<1>5. seen # {} => low \in seen
  OBVIOUS
<1> HIDE DEF seen, low
<1>6. seen # {} => Anchor!BottomOf(low, l, at) \in Int
  BY <1>1, <1>2, <1>5, BottomIs
<1>7. \A i \in seen : i = low
  BY <1>3, <1>5
<1> QED
  BY <1>4, <1>6, <1>7 DEF seen

\* What is scrolled by: the height that came or went, or the way of the message that is kept.
LEMMA DeltaIs ==
  ASSUME Anchor!AnchorAssumption, AnchorInv, NEW l, IsList(l), NEW at \in Int
  PROVE  LET delta == Anchor!ScrollDelta(l, at)
         IN  /\ delta \in Int
             /\ snapshot.atBottom => delta = Anchor!Height(l) - Anchor!Height(list)
             /\ ~snapshot.atBottom => \A j \in 1..Len(l) :
                  l[j].id = snapshot.anchor => delta = Anchor!BottomOf(j, l, at) - snapshot.bottom
<1> DEFINE found == Anchor!Places(snapshot.anchor, l)
           first == CHOOSE i \in found : TRUE
<1>1. l \in Seq(Rows) /\ list \in Seq(Rows) /\ DOMAIN l = 1..Len(l) /\ scroll \in Int
  BY WithinIs DEF AnchorInv, IsList
<1>2. snapshot.bottom \in Int /\ snapshot.height = Anchor!Height(list)
  BY <1>1, SnapshotIs DEF AnchorInv
<1>3. found = {i \in 1..Len(l) : l[i].id = snapshot.anchor}
  BY <1>1 DEF Anchor!Places
<1>4. Anchor!ScrollDelta(l, at) =
        IF snapshot.atBottom THEN Anchor!Height(l) - snapshot.height
        ELSE IF found = {} THEN 0 ELSE Anchor!BottomOf(first, l, at) - snapshot.bottom
  BY DEF Anchor!ScrollDelta
<1>5. found # {} => first \in found
  OBVIOUS
<1>6. \A i, j \in found : i = j
  BY <1>3 DEF IsList, Distinct
<1> HIDE DEF found, first
<1>7. found # {} => Anchor!BottomOf(first, l, at) \in Int
  BY <1>1, <1>3, <1>5, BottomIs
<1>8. Anchor!Height(l) \in Nat /\ Anchor!Height(list) \in Nat
  BY <1>1, HeightIs
<1>9. Anchor!ScrollDelta(l, at) \in Int
  BY <1>2, <1>4, <1>7, <1>8
<1>10. ASSUME NEW j \in 1..Len(l), l[j].id = snapshot.anchor PROVE found # {} /\ j = first
  BY <1>3, <1>5, <1>6, <1>10
<1> QED
  BY <1>2, <1>4, <1>9, <1>10

\* What PlaceIsKept says of a step to a list l, scrolled to a place.
PlaceKept(l, to) ==
  IF Anchor!GetBottomDistance(list, scroll) <= Threshold
  THEN Anchor!Height(l) >= Anchor!Height(list) /\ Anchor!Height(list) >= View =>
         Anchor!GetBottomDistance(l, to) = Anchor!GetBottomDistance(list, scroll)
  ELSE \A i \in DOMAIN list : \A j \in DOMAIN l :
         /\ Anchor!IsVisible(i, list, scroll) /\ \A k \in i + 1..Len(list) : ~Anchor!IsVisible(k, list, scroll)
         /\ l[j].id = list[i].id
         /\ to \notin {0, Anchor!MaxScroll(l)}
         => Anchor!BottomOf(j, l, to) = Anchor!BottomOf(i, list, scroll)

\* What restoring the snapshot makes of the scroll position when the list becomes l.
LEMMA Restores ==
  ASSUME Anchor!AnchorAssumption, AnchorInv, NEW l, IsList(l)
  PROVE  /\ Anchor!Restored(l) \in 0..Anchor!MaxScroll(l)
         /\ ~prepending => PlaceKept(l, Anchor!Restored(l))
<1> DEFINE at == Anchor!Within(scroll, l)
           delta == Anchor!ScrollDelta(l, at)
           to == Anchor!Within(at + delta, l)
<1>1. /\ l \in Seq(Rows) /\ list \in Seq(Rows) /\ scroll \in 0..Anchor!MaxScroll(list)
      /\ DOMAIN l = 1..Len(l) /\ DOMAIN list = 1..Len(list)
  BY DEF AnchorInv, IsList
<1>2. /\ scroll \in Int /\ Anchor!MaxScroll(list) \in Nat /\ Anchor!MaxScroll(l) \in Nat
      /\ at \in 0..Anchor!MaxScroll(l)
  BY <1>1, WithinIs
<1>3. at \in Int
  BY <1>2
<1>4. delta \in Int
  BY <1>3, DeltaIs
<1>5. to \in 0..Anchor!MaxScroll(l) /\ at + delta \in Int
  <2> HIDE DEF at, delta
  <2>1. at + delta \in Int
    BY <1>3, <1>4
  <2> QED
    BY <1>1, <2>1, WithinIs
<1>6. Anchor!Restored(l) = IF prepending THEN at ELSE to
  BY DEF Anchor!Restored
<1>7. /\ snapshot.atBottom = (Anchor!GetBottomDistance(list, scroll) <= Threshold)
      /\ \A i \in Anchor!Lowest(list, scroll) :
           snapshot.anchor = list[i].id /\ snapshot.bottom = Anchor!BottomOf(i, list, scroll)
  BY <1>2, SnapshotIs DEF AnchorInv
<1>8. CASE Anchor!GetBottomDistance(list, scroll) <= Threshold
  <2> SUFFICES ASSUME Anchor!Height(l) >= Anchor!Height(list), Anchor!Height(list) >= View
               PROVE  Anchor!GetBottomDistance(l, to) = Anchor!GetBottomDistance(list, scroll)
    BY <1>2, <1>5, <1>6, <1>8 DEF PlaceKept
  <2>1. Anchor!Height(l) \in Nat /\ Anchor!Height(list) \in Nat /\ View \in Nat
    BY <1>1, HeightIs DEF Anchor!AnchorAssumption
  <2>2. /\ Anchor!MaxScroll(list) = Anchor!Height(list) - View
        /\ Anchor!MaxScroll(l) = Anchor!Height(l) - View
    BY <2>1 DEF Anchor!MaxScroll
  <2>3. at = scroll
    <3>1. scroll \in 0..Anchor!MaxScroll(l)
      BY <1>1, <1>2, <2>1, <2>2
    <3> QED
      BY <1>1, <1>2, <3>1, WithinIs
  <2>4. delta = Anchor!Height(l) - Anchor!Height(list)
    BY <1>3, <1>7, <1>8, DeltaIs
  <2>5. to = at + delta
    <3>1. at + delta \in 0..Anchor!MaxScroll(l)
      BY <1>1, <1>2, <2>1, <2>2, <2>3, <2>4
    <3> QED
      BY <1>1, <1>5, <3>1, WithinIs
  <2> HIDE DEF at, delta, to
  <2> QED
    BY <1>2, <2>1, <2>3, <2>4, <2>5 DEF Anchor!GetBottomDistance
<1>9. CASE ~(Anchor!GetBottomDistance(list, scroll) <= Threshold)
  <2>1. ASSUME NEW i \in DOMAIN list, NEW j \in DOMAIN l, Anchor!IsVisible(i, list, scroll),
               \A k \in i + 1..Len(list) : ~Anchor!IsVisible(k, list, scroll),
               l[j].id = list[i].id, to \notin {0, Anchor!MaxScroll(l)}
        PROVE  Anchor!BottomOf(j, l, to) = Anchor!BottomOf(i, list, scroll)
    <3>1. i \in Anchor!Lowest(list, scroll)
      BY <2>1 DEF Anchor!Lowest
    <3>2. delta = Anchor!BottomOf(j, l, at) - Anchor!BottomOf(i, list, scroll)
      BY <1>1, <1>3, <1>7, <1>9, <2>1, <3>1, DeltaIs
    <3>3. to = at + delta
      BY <1>1, <1>5, <2>1, WithinIs
    <3>4. /\ Anchor!BottomOf(j, l, at) \in Int /\ Anchor!BottomOf(i, list, scroll) \in Int
          /\ Anchor!BottomOf(j, l, at + delta) = Anchor!BottomOf(j, l, at) + at - (at + delta)
      BY <1>1, <1>2, <1>3, <1>5, <2>1, BottomIs
    <3> HIDE DEF at, delta, to
    <3> QED
      BY <1>3, <1>4, <3>2, <3>3, <3>4
  <2> HIDE DEF at, delta, to
  <2> QED
    BY <1>2, <1>5, <1>6, <1>9, <2>1 DEF PlaceKept
<1> QED
  BY <1>8, <1>9

\* A new message has an id of its own.
LEMMA FreshIs ==
  ASSUME NEW l \in Seq(Rows)
  PROVE  Anchor!Fresh(l) \in Nat /\ \A i \in 1..Len(l) : l[i].id # Anchor!Fresh(l)
<1> DEFINE n == Len(l)
<1>1. n \in Nat /\ DOMAIN l = 1..n
  OBVIOUS
<1>2. \E m \in 1..n + 1 : \A i \in 1..n : l[i].id # m
  <2> SUFFICES ASSUME \A m \in 1..n + 1 : \E i \in 1..n : l[i].id = m PROVE FALSE
    OBVIOUS
  <2> DEFINE f == [m \in 1..n + 1 |-> CHOOSE i \in 1..n : l[i].id = m]
  <2>1. \A m \in 1..n + 1 : f[m] \in 1..n /\ l[f[m]].id = m
    OBVIOUS
  <2>2. f \in [1..n + 1 -> 1..n]
    BY <2>1
  <2> HIDE DEF f, n
  <2> DEFINE more == 1..n + 1
             old == 1..n
  <2>3. IsFiniteSet(old) /\ Cardinality(old) = n
    BY <1>1, Interval
  <2>4. IsFiniteSet(more) /\ Cardinality(more) = n + 1
    <3>1. n + 1 \in Nat /\ n + 1 \in Int
      BY <1>1
    <3> QED
      BY <3>1, Interval
  <2>5. f \in [more -> old]
    BY <2>2
  <2> HIDE DEF more, old
  <2>6. Cardinality(old) < Cardinality(more)
    BY <1>1, <2>3, <2>4
  <2>7. PICK x \in more, y \in more : x # y /\ f[x] = f[y]
    BY <2>3, <2>4, <2>5, <2>6, FS_PigeonHole
  <2> USE DEF more
  <2> QED
    BY <2>1, <2>7
<1> DEFINE new == CHOOSE m \in 1..n + 1 : \A i \in 1..n : l[i].id # m
<1>3. new \in 1..n + 1 /\ \A i \in 1..n : l[i].id # new
  BY <1>2
<1>4. Anchor!Fresh(l) = new
  BY <1>1 DEF Anchor!Fresh
<1> HIDE DEF new
<1> QED
  BY <1>1, <1>3, <1>4

\* Whatever the list becomes, its place is kept and the snapshot is taken again.
LEMMA Becoming ==
  ASSUME Anchor!AnchorAssumption, AnchorInv, NEW l, IsList(l), Anchor!Becomes(l)
  PROVE  AnchorInv' /\ (list' # list /\ ~prepending => PlaceKept(list', scroll'))
<1>1. /\ list' = l /\ scroll' = Anchor!Restored(l) /\ prepending' = prepending
      /\ snapshot' = Anchor!CaptureSnapshot(l, scroll')
  BY DEF Anchor!Becomes
<1>2. scroll' \in 0..Anchor!MaxScroll(l) /\ (~prepending => PlaceKept(l, scroll'))
  BY <1>1, Restores
<1>3. IsList(list')
  BY <1>1
<1> QED
  BY <1>1, <1>2, <1>3 DEF AnchorInv

\* At most one message, at the top, with its snapshot taken.
LEMMA AnchorInit == ASSUME Anchor!AnchorAssumption, Anchor!Init PROVE AnchorInv
<1>1. IsList(list)
  <2>1. PICK n \in 0..1 : list \in [1..n -> [id : 1..n, size : RowSizes]]
    BY DEF Anchor!Init
  <2>2. list \in [1..n -> Rows]
    BY <2>1 DEF Rows
  <2>3. list \in Seq(Rows) /\ Len(list) = n
    BY <2>2
  <2> QED
    BY <2>3 DEF IsList, Distinct
<1>2. /\ scroll = Anchor!MaxScroll(list) /\ snapshot = Anchor!CaptureSnapshot(list, scroll)
      /\ prepending = FALSE
  BY DEF Anchor!Init
<1>3. Anchor!MaxScroll(list) \in Nat
  BY <1>1, WithinIs DEF IsList
<1>4. scroll \in 0..Anchor!MaxScroll(list)
  BY <1>2, <1>3
<1> QED
  BY <1>1, <1>2, <1>4 DEF AnchorInv

\* Every step of the list keeps the invariant, and the place unless older messages come.
LEMMA AnchorStep ==
  ASSUME Anchor!AnchorAssumption, AnchorInv, Anchor!Next \/ UNCHANGED anchorVars
  PROVE  AnchorInv' /\ (list' # list /\ ~prepending => PlaceKept(list', scroll'))
<1> DEFINE Goal == AnchorInv' /\ (list' # list /\ ~prepending => PlaceKept(list', scroll'))
<1>0. IsList(list) /\ list \in Seq(Rows)
  BY DEF AnchorInv, IsList
<1>1. ASSUME NEW at \in 0..Anchor!MaxScroll(list), Anchor!Scroll(at) PROVE Goal
  BY <1>1 DEF Anchor!Scroll, AnchorInv
<1>2. ASSUME NEW i \in 1..MaxList, NEW size \in RowSizes, Anchor!Resized(i, size) PROVE Goal
  <2> DEFINE l == [list EXCEPT ![i].size = size]
  <2>1. i \in 1..Len(list) /\ Anchor!Becomes(l)
    BY <1>0, <1>2 DEF Anchor!Resized
  <2>2. list[i] \in Rows /\ l = [list EXCEPT ![i] = [list[i] EXCEPT !.size = size]]
    BY <1>0, <2>1
  <2> DEFINE changed == [list[i] EXCEPT !.size = size]
  <2>3. changed \in Rows /\ changed.id = list[i].id
    BY <2>2 DEF Rows
  <2> HIDE DEF changed
  <2>4. l \in Seq(Rows) /\ Len(l) = Len(list) /\ l[i] = changed /\ \A j \in 1..Len(list) : j # i => l[j] = list[j]
    BY <1>0, <2>1, <2>2, <2>3 DEF changed
  <2> HIDE DEF l
  <2>5. \A j \in 1..Len(list) : l[j].id = list[j].id
    BY <2>3, <2>4
  <2>6. IsList(l)
    BY <1>0, <2>4, <2>5 DEF IsList, Distinct
  <2> QED
    BY <2>1, <2>6, Becoming
<1>3. ASSUME NEW size \in RowSizes, Anchor!Arrives(size) PROVE Goal
  <2> DEFINE new == [id |-> Anchor!Fresh(list), size |-> size]
             l == Append(list, new)
  <2>1. new \in Rows /\ \A i \in 1..Len(list) : list[i].id # new.id
    BY <1>0, FreshIs DEF Rows
  <2>2. Anchor!Becomes(l)
    BY <1>3 DEF Anchor!Arrives
  <2> HIDE DEF new
  <2>3. /\ l \in Seq(Rows) /\ Len(l) = Len(list) + 1 /\ l[Len(list) + 1] = new
        /\ \A i \in 1..Len(list) : l[i] = list[i]
    BY <1>0, <2>1
  <2> HIDE DEF l
  <2>4. IsList(l)
    BY <1>0, <2>1, <2>3 DEF IsList, Distinct
  <2> QED
    BY <2>2, <2>4, Becoming
<1>4. ASSUME NEW size \in RowSizes, Anchor!Prepend(size) PROVE Goal
  <2> DEFINE new == [id |-> Anchor!Fresh(list), size |-> size]
             l == <<new>> \o list
  <2>1. new \in Rows /\ \A i \in 1..Len(list) : list[i].id # new.id
    BY <1>0, FreshIs DEF Rows
  <2>2. Anchor!Becomes(l)
    BY <1>4 DEF Anchor!Prepend
  <2> HIDE DEF new
  <2>3. /\ l \in Seq(Rows) /\ Len(l) = Len(list) + 1 /\ l[1] = new
        /\ \A i \in 2..Len(list) + 1 : l[i] = list[i - 1]
    BY <1>0, <2>1
  <2> HIDE DEF l
  <2>4. ASSUME NEW i \in 1..Len(l), NEW j \in 1..Len(l), l[i].id = l[j].id PROVE i = j
    <3>1. CASE i = 1 /\ j # 1
      BY <1>0, <2>1, <2>3, <2>4, <3>1
    <3>2. CASE i # 1 /\ j = 1
      BY <1>0, <2>1, <2>3, <2>4, <3>2
    <3>3. CASE i # 1 /\ j # 1
      <4>1. /\ i - 1 \in 1..Len(list) /\ j - 1 \in 1..Len(list)
            /\ l[i] = list[i - 1] /\ l[j] = list[j - 1]
        BY <1>0, <2>3, <3>3
      <4>2. i - 1 = j - 1
        BY <1>0, <2>4, <4>1 DEF IsList, Distinct
      <4> QED
        BY <4>2
    <3> QED
      BY <3>1, <3>2, <3>3
  <2>5. IsList(l)
    BY <2>3, <2>4 DEF IsList, Distinct
  <2> QED
    BY <2>2, <2>5, Becoming
<1>5. ASSUME NEW i \in 1..MaxList, Anchor!Removed(i) PROVE Goal
  <2> DEFINE l == SubSeq(list, 1, i - 1) \o SubSeq(list, i + 1, Len(list))
  <2>1. i \in 1..Len(list) /\ Anchor!Becomes(l)
    BY <1>0, <1>5 DEF Anchor!Removed, Anchor!RemoveAt
  <2>2. /\ l \in Seq(Rows) /\ Len(l) = Len(list) - 1
        /\ \A j \in 1..i - 1 : l[j] = list[j]
        /\ \A j \in i..Len(list) - 1 : l[j] = list[j + 1]
    <3> DEFINE a == SubSeq(list, 1, i - 1)
               b == SubSeq(list, i + 1, Len(list))
    <3>1. a \in Seq(Rows) /\ Len(a) = i - 1 /\ \A j \in 1..i - 1 : a[j] = list[j]
      BY <1>0, <2>1
    <3>2. b \in Seq(Rows) /\ Len(b) = Len(list) - i /\ \A j \in 1..Len(list) - i : b[j] = list[i + j]
      BY <1>0, <2>1
    <3> HIDE DEF a, b
    <3>0. i \in Nat /\ Len(list) \in Nat /\ i >= 1 /\ i =< Len(list)
      BY <1>0, <2>1
    <3> DEFINE c == a \o b
    <3>3. c \in Seq(Rows)
      BY <3>1, <3>2, ConcatProperties
    <3>4. Len(c) = Len(a) + Len(b)
      BY <3>1, <3>2, ConcatProperties
    <3>5. Len(c) = Len(list) - 1
      BY <3>0, <3>1, <3>2, <3>4
    <3>6. \A j \in 1..Len(a) + Len(b) : c[j] = IF j =< Len(a) THEN a[j] ELSE b[j - Len(a)]
      BY <3>1, <3>2, ConcatProperties
    <3> HIDE DEF c
    <3>7. ASSUME NEW j \in 1..i - 1 PROVE c[j] = list[j]
      <4>1. j \in 1..Len(a) + Len(b) /\ j =< Len(a)
        BY <3>0, <3>1, <3>2
      <4>2. c[j] = a[j]
        BY <4>1, <3>6
      <4> QED
        BY <4>2, <3>1
    <3>8. ASSUME NEW j \in i..Len(list) - 1 PROVE c[j] = list[j + 1]
      <4>1. /\ j \in 1..Len(a) + Len(b) /\ ~(j =< Len(a))
            /\ j - Len(a) \in 1..Len(list) - i /\ i + (j - Len(a)) = j + 1
        BY <3>0, <3>1, <3>2
      <4>2. c[j] = b[j - Len(a)]
        BY <4>1, <3>6
      <4>3. b[j - Len(a)] = list[i + (j - Len(a))]
        BY <4>1, <3>2
      <4> QED
        BY <4>1, <4>2, <4>3
    <3> QED
      BY <3>3, <3>5, <3>7, <3>8 DEF a, b, c
  <2> HIDE DEF l
  <2>3. IsList(l)
    BY <1>0, <2>1, <2>2 DEF IsList, Distinct
  <2> QED
    BY <2>1, <2>3, Becoming
<1>6. ASSUME NEW now \in BOOLEAN, Anchor!SetPrepending(now) PROVE Goal
  BY <1>6 DEF Anchor!SetPrepending, AnchorInv
<1>7. ASSUME UNCHANGED anchorVars PROVE Goal
  BY <1>7 DEF anchorVars, AnchorInv
<1> QED
  BY <1>1, <1>2, <1>3, <1>4, <1>5, <1>6, <1>7 DEF Anchor!Next

------------------------------------------------------------------------------
(* The square of an avatar                                                 *)

Between(x, low, high) ==
  IF high <= low THEN high
  ELSE IF x <= low THEN low ELSE IF x <= high THEN x ELSE high

\* The least and the greatest of two numbers.
LEMMA TwoAre ==
  ASSUME NEW a \in Int, NEW b \in Int
  PROVE  /\ Layout!Least({a, b}) = IF a <= b THEN a ELSE b
         /\ Layout!Greatest({a, b}) = IF a >= b THEN a ELSE b
<1>1. Layout!Least({a, b}) = IF a <= b THEN a ELSE b
  <2> DEFINE m == IF a <= b THEN a ELSE b
  <2>1. m \in {a, b} /\ \A y \in {a, b} : m <= y
    OBVIOUS
  <2>2. \A x \in {a, b} : (\A y \in {a, b} : x <= y) => x = m
    OBVIOUS
  <2> QED
    BY <2>1, <2>2 DEF Layout!Least
<1>2. Layout!Greatest({a, b}) = IF a >= b THEN a ELSE b
  <2> DEFINE m == IF a >= b THEN a ELSE b
  <2>1. m \in {a, b} /\ \A y \in {a, b} : m >= y
    OBVIOUS
  <2>2. \A x \in {a, b} : (\A y \in {a, b} : x >= y) => x = m
    OBVIOUS
  <2> QED
    BY <2>1, <2>2 DEF Layout!Greatest
<1> QED
  BY <1>1, <1>2

\* What clamp returns, if the bounds cross too.
LEMMA ClampIs ==
  ASSUME NEW x \in Int, NEW low \in Int, NEW high \in Int
  PROVE  Layout!clamp(x, low, high) = Between(x, low, high)
<1> DEFINE m == Layout!Greatest({low, x})
<1>1. m = IF low >= x THEN low ELSE x
  BY TwoAre
<1>2. m \in Int
  BY <1>1
<1> HIDE DEF m
<1>3. Layout!Least({high, m}) = IF high <= m THEN high ELSE m
  BY <1>2, TwoAre
<1> QED
  BY <1>1, <1>3 DEF Layout!clamp, Between, m

\* The side of a square area that fits into the picture.
LEMMA LeastSide ==
  ASSUME NEW a \in Int, NEW m \in Int, NEW n \in Int, a <= m, a <= n
  PROVE  Layout!Least({a, a, m, n}) = a
<1>1. a \in {a, a, m, n} /\ \A y \in {a, a, m, n} : a <= y
  OBVIOUS
<1>2. \A x \in {a, a, m, n} : (\A y \in {a, a, m, n} : x <= y) => x = a
  OBVIOUS
<1> QED
  BY <1>1, <1>2 DEF Layout!Least

\* A side of length a at x, and a picture of length n.
OnSide(x, a, n) == x \in Nat /\ a \in Nat \ {0} /\ n \in Nat \ {0} /\ x + a <= n

\* The products of lengths with the factor R, and with what a crop has along them.
LEMMA Scaled ==
  ASSUME NEW x, NEW a, NEW n, OnSide(x, a, n), NEW R \in Nat \ {0}
  PROVE  /\ x * R \in Nat /\ a * R \in Nat /\ n * R \in Nat
         /\ x * R + a * R <= n * R /\ R <= a * R /\ n <= n * R /\ a <= a * R
<1>1. x \in Nat /\ a \in Nat /\ n \in Nat /\ a >= 1 /\ n >= 1 /\ R >= 1
  BY DEF OnSide
<1>2. x * R \in Nat /\ a * R \in Nat /\ n * R \in Nat
  BY <1>1
<1>3. (x + a) * R <= n * R
  BY <1>1, Product DEF OnSide
<1>4. (x + a) * R = x * R + a * R
  BY <1>1
<1>5. 1 * R <= a * R
  BY <1>1, Product
<1>6. 1 * n <= R * n /\ 1 * a <= R * a
  BY <1>1, Product
<1>7. R * n = n * R /\ R * a = a * R
  BY <1>1
<1> QED
  BY <1>1, <1>2, <1>3, <1>4, <1>5, <1>6, <1>7

\* The size is rounded to within half a unit, or is one unit; where it starts is moved by
\* no more than the size is.
LEMMA RoundedIs ==
  ASSUME NEW x, NEW a, NEW n, OnSide(x, a, n), RoundFactor \in Nat \ {0}
  PROVE  LET h == Layout!Rounded(2 * x, 2 * a, n)
         IN  /\ h.size \in 1..RoundFactor /\ h.from \in 0..RoundFactor - h.size
             /\ h.size * n \in Nat /\ h.from * n \in Nat
             /\ h.from * n + h.size * n <= n * RoundFactor
             /\ h.size * n - a * RoundFactor \in -n..n
             /\ 2 * (h.from * n) - 2 * (x * RoundFactor) \in -(3 * n)..n
<1> DEFINE R == RoundFactor
           P == a * R
           Q == x * R
           N == n * R
           size == IF P <= n THEN 2 * n ELSE 2 * P
           start == IF 2 * Q <= 2 * N - size THEN 2 * Q ELSE 2 * N - size
           q == (size + n) \div (2 * n)
           r == (start + n) \div (2 * n)
           f == IF r <= R - q THEN r ELSE R - q
<1>1. /\ P \in Nat /\ Q \in Nat /\ N \in Nat /\ n \in Nat \ {0} /\ a \in Nat /\ x \in Nat /\ R \in Nat \ {0}
      /\ Q + P <= N /\ R <= P /\ n <= N
  BY Scaled DEF OnSide
<1>2. (2 * a) * R = 2 * P /\ (2 * x) * R = 2 * Q /\ 2 * n * R = 2 * N
  BY <1>1
<1> HIDE DEF P, Q, N
<1>3. size \in Nat /\ size >= 2 * n /\ size >= 2 * P /\ size <= 2 * N /\ size <= 2 * P + 2 * n
  BY <1>1
<1>4. Layout!clamp((2 * a) * R, 2 * n, 2 * n * R) = size
  <2>1. Layout!clamp(2 * P, 2 * n, 2 * N) = Between(2 * P, 2 * n, 2 * N)
    BY <1>1, ClampIs
  <2>2. Between(2 * P, 2 * n, 2 * N) = size
    BY <1>1 DEF Between
  <2> QED
    BY <1>2, <2>1, <2>2
<1>5. /\ start \in Nat /\ start <= 2 * Q /\ start <= 2 * N - size
      /\ 2 * Q - start <= 2 * n
  BY <1>1
<1>6. Layout!clamp((2 * x) * R, 0, 2 * n * R - size) = start
  <2>1. Layout!clamp(2 * Q, 0, 2 * N - size) = Between(2 * Q, 0, 2 * N - size)
    BY <1>1, <1>3, ClampIs
  <2>2. Between(2 * Q, 0, 2 * N - size) = start
    BY <1>1, <1>3 DEF Between
  <2> QED
    BY <1>2, <2>1, <2>2
<1> HIDE DEF size, start
<1>7. /\ q \in Nat /\ 2 * (q * n) <= size + n /\ size + n < 2 * (q * n) + 2 * n
      /\ r \in Nat /\ 2 * (r * n) <= start + n /\ start + n < 2 * (r * n) + 2 * n
  <2>1. size + n \in Nat /\ start + n \in Nat /\ 2 * n \in Nat \ {0}
    BY <1>1, <1>3, <1>5
  <2>2. q \in Nat /\ q * (2 * n) <= size + n /\ size + n < q * (2 * n) + 2 * n
    BY <2>1, Quotient
  <2>3. r \in Nat /\ r * (2 * n) <= start + n /\ start + n < r * (2 * n) + 2 * n
    BY <2>1, Quotient
  <2> HIDE DEF q, r
  <2>4. q * (2 * n) = 2 * (q * n) /\ r * (2 * n) = 2 * (r * n)
    BY <1>1, <2>2, <2>3
  <2> QED
    BY <2>2, <2>3, <2>4
<1> HIDE DEF q, r
<1>8. q * n \in Nat /\ r * n \in Nat
  BY <1>1, <1>7
<1>9. q \in 1..R
  <2>1. q # 0
    <3>1. 0 * n = 0
      BY <1>1
    <3> QED
      BY <1>1, <1>3, <1>7, <3>1
  <2>2. q <= R
    <3>1. SUFFICES ASSUME R + 1 <= q PROVE FALSE
      BY <1>1, <1>7
    <3>2. (R + 1) * n <= q * n
      BY <1>1, <1>7, <3>1, Product
    <3>3. (R + 1) * n = N + n
      BY <1>1 DEF N
    <3> QED
      BY <1>1, <1>3, <1>7, <1>8, <3>2, <3>3
  <2> QED
    BY <1>1, <1>7, <2>1, <2>2
<1>10. f \in 0..R - q /\ f * n \in Nat
  BY <1>1, <1>7, <1>9
<1>11. (R - q) * n = N - q * n
  BY <1>1, <1>9 DEF N
<1>12. f * n <= r * n /\ f * n <= N - q * n /\ (f = r \/ f * n = N - q * n)
  <2>1. f <= r /\ f <= R - q /\ f \in Int /\ r \in Int /\ R - q \in Int
    BY <1>1, <1>7, <1>9
  <2>2. f * n <= r * n /\ f * n <= (R - q) * n
    BY <1>1, <2>1, Product
  <2>3. f = r \/ f = R - q
    OBVIOUS
  <2> QED
    BY <1>11, <2>2, <2>3
<1>13. Layout!Rounded(2 * x, 2 * a, n) = [from |-> f, size |-> q]
  <2>1. Layout!clamp(q, 1, R) = q
    <3>1. Layout!clamp(q, 1, R) = Between(q, 1, R)
      BY <1>1, <1>7, ClampIs
    <3> QED
      BY <1>1, <1>9, <3>1 DEF Between
  <2>2. Layout!clamp(r, 0, R - q) = f
    <3>1. Layout!clamp(r, 0, R - q) = Between(r, 0, R - q)
      BY <1>1, <1>7, <1>9, ClampIs
    <3> QED
      BY <1>1, <1>7, <1>9, <3>1 DEF Between
  <2> HIDE DEF f
  <2> QED
    BY <1>4, <1>6, <2>1, <2>2 DEF Layout!Rounded, q, r
<1> HIDE DEF f
<1>14. q * n - P \in -n..n
  BY <1>1, <1>3, <1>7, <1>8 DEF size
<1>15. 2 * (f * n) - 2 * Q \in -(3 * n)..n
  <2>1. 2 * (f * n) <= start + n /\ 2 * (f * n) >= start - n
    BY <1>1, <1>3, <1>5, <1>7, <1>8, <1>10, <1>12
  <2> QED
    BY <1>1, <1>5, <1>10, <2>1
<1>16. f * n + q * n <= N
  BY <1>1, <1>8, <1>10, <1>12
<1> DEFINE h == Layout!Rounded(2 * x, 2 * a, n)
<1>17. h.from = f /\ h.size = q
  BY <1>13
<1> HIDE DEF h
<1>18. /\ h.size \in 1..R /\ h.from \in 0..R - h.size
       /\ h.size * n \in Nat /\ h.from * n \in Nat /\ h.from * n + h.size * n <= n * R
       /\ h.size * n - a * R \in -n..n /\ 2 * (h.from * n) - 2 * (x * R) \in -(3 * n)..n
  BY <1>8, <1>9, <1>10, <1>14, <1>15, <1>16, <1>17 DEF P, Q, N
<1> QED
  BY <1>18 DEF h

\* What is cut out of a picture: its size, and the place of the cut along one side.
LEMMA CutAlong ==
  ASSUME NEW n \in Nat \ {0}, NEW from \in Nat, NEW F \in Nat, F = from * n,
         NEW N \in Nat, N = n * RoundFactor, RoundFactor \in Nat \ {0},
         NEW length \in Nat, NEW size \in Nat, size <= length, length <= N
  PROVE  LET centre == Layout!clamp(2 * from * n + length, 0, 2 * n * RoundFactor)
             at == Layout!clamp(centre - size, 0, Layout!Greatest({0, 2 * (n * RoundFactor - size)}))
         IN  /\ at \in Nat /\ (at = 0 \/ at <= 2 * F + length - size)
             /\ at >= 2 * F + length - size \/ at >= 2 * N - 2 * size
<1> DEFINE centre == IF 2 * F + length <= 2 * N THEN 2 * F + length ELSE 2 * N
           room == 2 * N - 2 * size
           at == Between(centre - size, 0, room)
<1>1. 2 * from * n = 2 * F /\ 2 * n * RoundFactor = 2 * N /\ 2 * (n * RoundFactor - size) = room
  OBVIOUS
<1>2. Layout!clamp(2 * F + length, 0, 2 * N) = centre
  <2>1. Layout!clamp(2 * F + length, 0, 2 * N) = Between(2 * F + length, 0, 2 * N)
    BY ClampIs
  <2> QED
    BY <2>1 DEF Between
<1>3. Layout!Greatest({0, room}) = room
  BY TwoAre
<1>4. Layout!clamp(centre - size, 0, room) = at
  BY ClampIs
<1>5. /\ at \in Nat /\ (at = 0 \/ at <= 2 * F + length - size)
      /\ at >= 2 * F + length - size \/ at >= room
  BY DEF Between
<1> HIDE DEF at, centre, room
<1> QED
  BY <1>1, <1>2, <1>3, <1>4, <1>5 DEF room

\* A distance is bounded if both differences are.
LEMMA DistanceIs ==
  ASSUME NEW a \in Int, NEW b \in Int, NEW d \in Int, a - b <= d, b - a <= d
  PROVE  Layout!Distance(a, b) <= d
BY DEF Layout!Distance

\* The square of side a at (x, y) of a picture of m by n.
LEMMA SourceIs ==
  ASSUME RoundFactor \in Nat \ {0}, NEW x, NEW y, NEW a, NEW m, NEW n, OnSide(x, a, m), OnSide(y, a, n)
  PROVE  LET cut == Layout!SourceRect(Layout!NormalizedCrop(2 * x, 2 * y, a, <<m, n>>), <<m, n>>)
         IN  /\ Layout!Distance(cut.size, a * RoundFactor) <= Layout!Greatest({m, n})
             /\ Layout!Distance(cut.x, 2 * x * RoundFactor) <= 3 * m + n
             /\ Layout!Distance(cut.y, 2 * y * RoundFactor) <= 3 * n + m
<1> DEFINE R == RoundFactor
           h == Layout!Rounded(2 * x, 2 * a, m)
           v == Layout!Rounded(2 * y, 2 * a, n)
           c == Layout!NormalizedCrop(2 * x, 2 * y, a, <<m, n>>)
           image == <<m, n>>
           P == a * R
           X == x * R
           Y == y * R
           M == m * R
           N == n * R
           Sm == h.size * m
           Sn == v.size * n
           Fm == h.from * m
           Fn == v.from * n
           width == IF Sm <= R THEN R ELSE Sm
           height == IF Sn <= R THEN R ELSE Sn
           size == IF width <= height THEN width ELSE height
<1>0. m \in Nat \ {0} /\ n \in Nat \ {0} /\ x \in Nat /\ y \in Nat /\ a \in Nat /\ R \in Nat \ {0}
  BY DEF OnSide
<1>1. /\ P \in Nat /\ X \in Nat /\ Y \in Nat /\ M \in Nat /\ N \in Nat
      /\ X + P <= M /\ Y + P <= N /\ R <= P /\ R <= M /\ R <= N
  <2>1. /\ x * R \in Nat /\ a * R \in Nat /\ m * R \in Nat /\ x * R + a * R <= m * R /\ R <= a * R
    BY <1>0, Scaled
  <2>2. /\ y * R \in Nat /\ n * R \in Nat /\ y * R + a * R <= n * R
    BY <1>0, Scaled
  <2> QED
    BY <1>0, <2>1, <2>2
<1>2. /\ h.size \in 1..R /\ h.from \in Nat /\ Sm \in Nat /\ Fm \in Nat /\ Fm + Sm <= M
      /\ Sm - P \in -m..m /\ 2 * Fm - 2 * X \in -(3 * m)..m
  BY <1>0, RoundedIs
<1>3. /\ v.size \in 1..R /\ v.from \in Nat /\ Sn \in Nat /\ Fn \in Nat /\ Fn + Sn <= N
      /\ Sn - P \in -n..n /\ 2 * Fn - 2 * Y \in -(3 * n)..n
  BY <1>0, RoundedIs
<1>4. c = [x |-> h.from, y |-> v.from, width |-> h.size, height |-> v.size]
  BY DEF Layout!NormalizedCrop
<1>5. c.x = h.from /\ c.y = v.from /\ c.width = h.size /\ c.height = v.size /\ image[1] = m /\ image[2] = n
  BY <1>4
<1> HIDE DEF h, v, c, image
<1>6. c.x * m = Fm /\ c.y * n = Fn /\ c.width * m = Sm /\ c.height * n = Sn
  BY <1>5
<1>7. 2 * x * R = 2 * X /\ 2 * y * R = 2 * Y
  BY <1>0
<1>8. c.x \in Nat /\ c.y \in Nat
  BY <1>2, <1>3, <1>5
<1>9. Fm = c.x * m /\ Fn = c.y * n /\ M = m * R /\ N = n * R
  BY <1>6
<1> HIDE DEF P, X, Y, M, N, Sm, Sn, Fm, Fn
<1>10. Layout!clamp(Sm, R, M) = width /\ Layout!clamp(Sn, R, N) = height
  <2>1. Layout!clamp(Sm, R, M) = Between(Sm, R, M) /\ Layout!clamp(Sn, R, N) = Between(Sn, R, N)
    BY <1>0, <1>1, <1>2, <1>3, ClampIs
  <2>2. Between(Sm, R, M) = width
    BY <1>0, <1>1, <1>2 DEF Between
  <2>3. Between(Sn, R, N) = height
    BY <1>0, <1>1, <1>3 DEF Between
  <2> QED
    BY <2>1, <2>2, <2>3
<1>11. width \in Nat /\ height \in Nat /\ width >= R /\ height >= R /\ width <= M /\ height <= N
  BY <1>0, <1>1, <1>2, <1>3
<1>12. width - P \in -m..m /\ height - P \in -n..n
  <2>1. width - P \in -m..m
    BY <1>0, <1>1, <1>2
  <2>2. height - P \in -n..n
    BY <1>0, <1>1, <1>3
  <2> QED
    BY <2>1, <2>2
<1> HIDE DEF width, height
<1>13. Layout!Greatest({R, Layout!Least({width, height})}) = size
  <2>1. Layout!Least({width, height}) = size
    BY <1>11, TwoAre
  <2>2. Layout!Greatest({R, size}) = IF R >= size THEN R ELSE size
    BY <1>0, <1>11, TwoAre
  <2> QED
    BY <1>0, <1>11, <2>1, <2>2
<1>14. size \in Nat /\ size <= width /\ size <= height /\ (size = width \/ size = height)
  BY <1>11
<1> HIDE DEF size
<1> DEFINE Centre(f, length, k) == Layout!clamp(2 * f * k + length, 0, 2 * k * RoundFactor)
           Start(f, length, k) == Layout!clamp(Centre(f, length, k) - size, 0,
                                    Layout!Greatest({0, 2 * (k * RoundFactor - size)}))
           cut == Layout!SourceRect(c, image)
<1>15. cut = [x |-> Start(c.x, width, m), y |-> Start(c.y, height, n), size |-> size]
  <2> HIDE DEF Start
  <2>1. /\ Layout!clamp(c.width * image[1], RoundFactor, image[1] * RoundFactor) = width
        /\ Layout!clamp(c.height * image[2], RoundFactor, image[2] * RoundFactor) = height
    BY <1>5, <1>6, <1>9, <1>10
  <2> QED
    BY <1>5, <1>13, <2>1 DEF Layout!SourceRect, Start
<1>16. /\ Start(c.x, width, m) \in Nat
       /\ Start(c.x, width, m) = 0 \/ Start(c.x, width, m) <= 2 * Fm + width - size
       /\ Start(c.x, width, m) >= 2 * Fm + width - size \/ Start(c.x, width, m) >= 2 * M - 2 * size
  <2>1. /\ c.x \in Nat /\ Fm \in Nat /\ M \in Nat /\ width \in Nat /\ size \in Nat
        /\ size <= width /\ width <= M
    BY <1>1, <1>2, <1>8, <1>11, <1>14
  <2> QED
    BY <1>0, <1>9, <2>1, CutAlong
<1>17. /\ Start(c.y, height, n) \in Nat
       /\ Start(c.y, height, n) = 0 \/ Start(c.y, height, n) <= 2 * Fn + height - size
       /\ Start(c.y, height, n) >= 2 * Fn + height - size \/ Start(c.y, height, n) >= 2 * N - 2 * size
  <2>1. /\ c.y \in Nat /\ Fn \in Nat /\ N \in Nat /\ height \in Nat /\ size \in Nat
        /\ size <= height /\ height <= N
    BY <1>1, <1>3, <1>8, <1>11, <1>14
  <2> QED
    BY <1>0, <1>9, <2>1, CutAlong
<1> HIDE DEF Start, cut
<1>18. cut.size = size /\ cut.x = Start(c.x, width, m) /\ cut.y = Start(c.y, height, n)
  BY <1>15
<1>19. Layout!Distance(size, P) <= Layout!Greatest({m, n})
  <2> DEFINE most == IF m >= n THEN m ELSE n
  <2>1. Layout!Greatest({m, n}) = most
    BY <1>0, TwoAre
  <2>2. size - P <= most /\ P - size <= most /\ most \in Int
    BY <1>0, <1>1, <1>11, <1>12, <1>14
  <2> HIDE DEF most
  <2> QED
    BY <1>1, <1>14, <2>1, <2>2, DistanceIs
<1>20. Layout!Distance(cut.x, 2 * X) <= 3 * m + n
  <2>1. cut.x \in Nat /\ cut.x - 2 * X <= 3 * m + n /\ 2 * X - cut.x <= 3 * m + n
    BY <1>0, <1>1, <1>2, <1>11, <1>12, <1>14, <1>16, <1>18
  <2> QED
    BY <1>0, <1>1, <2>1, DistanceIs
<1>21. Layout!Distance(cut.y, 2 * Y) <= 3 * n + m
  <2>1. cut.y \in Nat /\ cut.y - 2 * Y <= 3 * n + m /\ 2 * Y - cut.y <= 3 * n + m
    BY <1>0, <1>1, <1>3, <1>11, <1>12, <1>14, <1>17, <1>18
  <2> QED
    BY <1>0, <1>1, <2>1, DistanceIs
<1> QED
  BY <1>7, <1>18, <1>19, <1>20, <1>21 DEF cut, c, image, P, X, Y

------------------------------------------------------------------------------
(* The crop editor                                                         *)

CropFields == {"image", "media", "area", "applied", "cut"}
InPicture(area, media) ==
  /\ media \in Sides \X Sides
  /\ area \in [x : Nat, y : Nat, width : Sides, height : Sides]
  /\ area.x + area.width <= media[1] /\ area.y + area.height <= media[2]
CropInv ==
  /\ DOMAIN cropper = CropFields /\ cropper = [f \in CropFields |-> cropper[f]]
  /\ cropper.image \in (Sides \X Sides) \cup {Layout!Unknown}
  /\ cropper.media \in {cropper.image, Layout!Unknown}
  /\ cropper.area # Layout!NoArea =>
       cropper.media = cropper.image /\ InPicture(cropper.area, cropper.media)

\* No picture and no area at first.
LEMMA CropInit == ASSUME Layout!CropInit PROVE CropInv
<1>1. /\ cropper.image = Layout!Unknown /\ cropper.media = Layout!Unknown
      /\ cropper.area = Layout!NoArea /\ DOMAIN cropper = CropFields
  BY DEF Layout!CropInit, CropFields
<1>2. cropper = [f \in CropFields |-> cropper[f]]
  BY DEF Layout!CropInit, CropFields
<1> QED
  BY <1>1, <1>2 DEF CropInv

\* Another picture forgets the area; an area that is reported lies in the picture loaded.
LEMMA CropStep ==
  ASSUME Layout!LayoutAssumption, CropInv, Layout!CropNext \/ UNCHANGED cropper PROVE CropInv'
<1>0. DOMAIN cropper = CropFields
  BY DEF CropInv
<1>1. ASSUME NEW w \in Sides, NEW h \in Sides, Layout!ShowImage(<<w, h>>) PROVE CropInv'
  <2>1. /\ cropper'.image = <<w, h>> /\ cropper'.media = Layout!Unknown
        /\ cropper'.area = Layout!NoArea /\ DOMAIN cropper' = CropFields
    BY <1>1 DEF Layout!ShowImage, CropFields
  <2>2. cropper' = [f \in CropFields |-> cropper'[f]]
    BY <1>1 DEF Layout!ShowImage, CropFields
  <2> QED
    BY <2>1, <2>2 DEF CropInv
<1>2. ASSUME Layout!MediaLoaded PROVE CropInv'
  <2>1. cropper' = [cropper EXCEPT !.media = cropper.image] /\ cropper.image # Layout!Unknown
    BY <1>2 DEF Layout!MediaLoaded
  <2>2. /\ cropper'.image = cropper.image /\ cropper'.media = cropper.image
        /\ cropper'.area = cropper.area /\ DOMAIN cropper' = CropFields
        /\ cropper' = [f \in CropFields |-> cropper'[f]]
    BY <1>0, <2>1 DEF CropFields
  <2> QED
    BY <2>2 DEF CropInv
<1>3. ASSUME NEW area \in Layout!Areas, Layout!CropComplete(area) PROVE CropInv'
  <2>1. /\ cropper' = [cropper EXCEPT !.area = area] /\ cropper.media # Layout!Unknown
        /\ area.x + area.width <= cropper.media[1] /\ area.y + area.height <= cropper.media[2]
    BY <1>3 DEF Layout!CropComplete
  <2>2. /\ cropper'.image = cropper.image /\ cropper'.media = cropper.media
        /\ cropper'.area = area /\ DOMAIN cropper' = CropFields
        /\ cropper' = [f \in CropFields |-> cropper'[f]]
    BY <1>0, <2>1 DEF CropFields
  <2>3. cropper.media = cropper.image /\ cropper.media \in Sides \X Sides
    BY <2>1 DEF CropInv
  <2>4. area \in [x : Nat, y : Nat, width : Sides, height : Sides]
    BY DEF Layout!Areas
  <2> QED
    BY <2>1, <2>2, <2>3, <2>4 DEF CropInv, InPicture
<1>4. ASSUME Layout!Apply PROVE CropInv'
  <2>1. PICK crop, cut : cropper' = [cropper EXCEPT !.applied = crop, !.cut = cut]
    BY <1>4 DEF Layout!Apply
  <2>2. /\ cropper'.image = cropper.image /\ cropper'.media = cropper.media
        /\ cropper'.area = cropper.area /\ DOMAIN cropper' = CropFields
        /\ cropper' = [f \in CropFields |-> cropper'[f]]
    BY <1>0, <2>1 DEF CropFields
  <2> QED
    BY <2>2 DEF CropInv
<1> QED
  BY <1>1, <1>2, <1>3, <1>4 DEF Layout!CropNext, CropInv

\* A square area of the picture is found again by buildAvatarCropFromArea.
LEMMA AreaIsFound ==
  ASSUME NEW x, NEW y, NEW a, NEW m, NEW n, OnSide(x, a, m), OnSide(y, a, n)
  PROVE  Layout!buildAvatarCropFromArea([x |-> x, y |-> y, width |-> a, height |-> a], <<m, n>>)
           = Layout!NormalizedCrop(2 * x, 2 * y, a, <<m, n>>)
<1> DEFINE area == [x |-> x, y |-> y, width |-> a, height |-> a]
           media == <<m, n>>
           Start(from, length, k) ==
             Layout!clamp(Layout!clamp(2 * from + length, 0, 2 * k) - a, 0, 2 * (k - a))
<1>0. m \in Nat \ {0} /\ n \in Nat \ {0} /\ x \in Nat /\ y \in Nat /\ a \in Nat \ {0} /\ a <= m /\ a <= n
  BY DEF OnSide
<1>1. media # Layout!Unknown /\ area # Layout!NoArea
  <2>1. area.width = a /\ Layout!NoArea.width = 0 /\ media[1] = m /\ Layout!Unknown[1] = 0
    BY DEF Layout!NoArea, Layout!Unknown
  <2> QED
    BY <1>0, <2>1
<1>2. Layout!clamp(a, 1, m) = a /\ Layout!clamp(a, 1, n) = a
  <2>1. Layout!clamp(a, 1, m) = Between(a, 1, m) /\ Layout!clamp(a, 1, n) = Between(a, 1, n)
    BY <1>0, ClampIs
  <2> QED
    BY <1>0, <2>1 DEF Between
<1>3. Layout!Least({a, a, m, n}) = a
  BY <1>0, LeastSide
<1>4. ASSUME NEW from, NEW k, OnSide(from, a, k) PROVE Start(from, a, k) = 2 * from
  <2>0. from \in Nat /\ k \in Nat /\ a \in Nat /\ from + a <= k /\ a >= 1
    BY <1>4 DEF OnSide
  <2>1. Layout!clamp(2 * from + a, 0, 2 * k) = Between(2 * from + a, 0, 2 * k)
    BY <2>0, ClampIs
  <2>2. Between(2 * from + a, 0, 2 * k) = 2 * from + a
    BY <2>0 DEF Between
  <2>3. Layout!clamp(2 * from + a, 0, 2 * k) - a = 2 * from
    BY <2>0, <2>1, <2>2
  <2>4. Layout!clamp(2 * from, 0, 2 * (k - a)) = Between(2 * from, 0, 2 * (k - a))
    BY <2>0, ClampIs
  <2>5. Between(2 * from, 0, 2 * (k - a)) = 2 * from
    BY <2>0 DEF Between
  <2> QED
    BY <2>3, <2>4, <2>5
<1>5. Start(x, a, m) = 2 * x /\ Start(y, a, n) = 2 * y
  BY <1>4
<1>6. area.x = x /\ area.y = y /\ area.width = a /\ area.height = a /\ media[1] = m /\ media[2] = n
  OBVIOUS
<1> HIDE DEF area, media
<1>7. Layout!buildAvatarCropFromArea(area, media)
        = Layout!NormalizedCrop(Start(x, a, m), Start(y, a, n), a, media)
  BY <1>1, <1>2, <1>3, <1>6 DEF Layout!buildAvatarCropFromArea
<1> QED
  BY <1>5, <1>7 DEF area, media

CutKept ==
  LET n == cropper.image
      cut == cropper'.cut
      area == cropper.area
  IN  /\ Layout!Distance(cut.size, area.width * RoundFactor) <= Layout!Greatest({n[1], n[2]})
      /\ Layout!Distance(cut.x, 2 * area.x * RoundFactor) <= 3 * n[1] + n[2]
      /\ Layout!Distance(cut.y, 2 * area.y * RoundFactor) <= 3 * n[2] + n[1]

\* The cut that is applied is the square area chosen, up to rounding.
LEMMA CutStays ==
  ASSUME Layout!LayoutAssumption, CropInv, Layout!Apply,
         cropper.area # Layout!NoArea, cropper.area.width = cropper.area.height
  PROVE  CutKept
<1> DEFINE m == cropper.image[1]
           n == cropper.image[2]
           x == cropper.area.x
           y == cropper.area.y
           a == cropper.area.width
<1>1. /\ cropper.media = cropper.image /\ cropper.image \in Sides \X Sides
      /\ cropper.area \in [x : Nat, y : Nat, width : Sides, height : Sides]
      /\ x + a <= m /\ y + cropper.area.height <= n
  BY DEF CropInv, InPicture
<1>2. cropper.image = <<m, n>> /\ cropper.area = [x |-> x, y |-> y, width |-> a, height |-> a]
  BY <1>1
<1>3. OnSide(x, a, m) /\ OnSide(y, a, n)
  BY <1>1 DEF OnSide, Layout!LayoutAssumption
<1> DEFINE crop == Layout!NormalizedCrop(2 * x, 2 * y, a, <<m, n>>)
           cut == Layout!SourceRect(crop, <<m, n>>)
<1>4. Layout!buildAvatarCropFromArea(cropper.area, cropper.media) = crop
  BY <1>1, <1>2, <1>3, AreaIsFound
<1>5. cropper' = [cropper EXCEPT !.applied = crop, !.cut = cut]
  BY <1>2, <1>4 DEF Layout!Apply
<1>6. /\ Layout!Distance(cut.size, a * RoundFactor) <= Layout!Greatest({m, n})
      /\ Layout!Distance(cut.x, 2 * x * RoundFactor) <= 3 * m + n
      /\ Layout!Distance(cut.y, 2 * y * RoundFactor) <= 3 * n + m
  BY <1>3, SourceIs DEF Layout!LayoutAssumption
<1> HIDE DEF crop, cut
<1>7. cropper'.cut = cut
  BY <1>5 DEF CropInv, CropFields
<1> QED
  BY <1>6, <1>7 DEF CutKept

------------------------------------------------------------------------------
(* The run of the display                                                  *)

\* For any packs, sources, numbers of refusals and sizes of the grid: nobody waits for a picture
\* that is not loading, the cached packs agree with the emoji, hidden and exchanged animations
\* leak nothing, and what is seen of the picker is drawn (customEmoji, Stickers, EmojiGrid).
THEOREM EmojiTheorem == MCSpec => []EmojiHold
<1>1. MCInit => EmojiInv
  BY EmojiInit, EmojiConstants
<1>2. EmojiInv /\ [MCNext]_allVars => EmojiInv'
  BY EmojiStep, EmojiConstants
<1>3. EmojiInv => EmojiHold
  BY EmojiFollows, EmojiConstants
<1> QED
  BY <1>1, <1>2, <1>3, PTL DEF MCSpec

\* In every step, for lists of any length with rows of any height and pictures of any size:
\* a change of the list does not move the message one looks at, and the square that is cut
\* out of an avatar is the chosen one up to rounding (ChatMessageList, AvatarCropModal).
THEOREM MovesTheorem == MCSpec => StepsHold
<1> DEFINE Inv == CropInv /\ AnchorInv
<1>1. MCInit => Inv
  BY CropInit, AnchorInit, AnchorConstants DEF MCInit
<1>2. Inv /\ [MCNext]_allVars =>
        /\ (Layout!CropNext \/ UNCHANGED cropper) /\ (Anchor!Next \/ UNCHANGED anchorVars)
  BY DEF MCNext, allVars
<1>3. Inv /\ [MCNext]_allVars => Inv'
  BY <1>2, CropStep, LayoutConstants, AnchorStep, AnchorConstants
<1>4. Inv /\ [MCNext]_allVars =>
        [Layout!Apply /\ cropper.area # Layout!NoArea /\ cropper.area.width = cropper.area.height
           => CutKept]_(Layout!layoutVars)
  BY CutStays, LayoutConstants
<1>5. Inv /\ [MCNext]_allVars =>
        [list' # list /\ ~prepending => PlaceKept(list', scroll')]_(Anchor!anchorVars)
  BY <1>2, AnchorStep, AnchorConstants
<1> QED
  BY <1>1, <1>3, <1>4, <1>5, PTL
  DEF MCSpec, StepsHold, Layout!CutIsNear, CutKept, Anchor!PlaceIsKept, PlaceKept
=============================================================================
