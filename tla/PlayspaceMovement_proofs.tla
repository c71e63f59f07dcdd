---------------------- MODULE PlayspaceMovement_proofs ----------------------
(***************************************************************************)
(* A reset of the playspace holds, a drag is bounded and the settings are  *)
(* on disk, for every set of positions and multipliers, every frame rate   *)
(* and any number of events.                                               *)
(***************************************************************************)
EXTENDS PlayspaceMovement, TLAPS

Place ==
  [live : Int, working : Int, home : Int, commit : BOOLEAN,
   original : [saved : BOOLEAN, at : Int],
   pull : [active : BOOLEAN, ref : Int, p0 : Int, s : Int]]

\* What of the state the operators below look at.
Facts == hand \in Int /\ settings.mult \in Nat

-----------------------------------------------------------------------------
(* What an Update does to a place *)

LEMMA PercentInt == ASSUME NEW n \in Int, NEW k \in Int PROVE Percent(n, k) \in Int
BY DEF Percent

LEMMA ShareNat == ASSUME NEW k \in Nat PROVE Share(k) \in Nat
BY DEF Share

LEMMA ClampInt == ASSUME NEW n \in Int, NEW k \in Nat PROVE Clamp(n, k) \in Int
BY DEF Clamp, MaxDelta

LEMMA CommitPlace ==
  ASSUME NEW m \in Place, NEW to \in Int, NEW ok \in BOOLEAN
  PROVE  /\ Commit(m, to, ok) \in Place
         /\ Commit(m, to, ok).live = IF ok THEN to ELSE m.live
         /\ Commit(m, to, ok).original = m.original
         /\ Commit(m, to, ok).pull = m.pull
         /\ Commit(m, to, ok).home = m.home
BY DEF Commit, Place

LEMMA RevertPlace ==
  ASSUME NEW m \in Place
  PROVE  /\ Revert(m) \in Place
         /\ Revert(m).working = m.live /\ Revert(m).live = m.live
         /\ Revert(m).original = m.original /\ Revert(m).pull = m.pull
         /\ Revert(m).home = m.home
BY DEF Revert, Place

LEMMA SavePlace ==
  ASSUME NEW m \in Place
  PROVE  /\ SaveOriginal(m) \in Place
         /\ SaveOriginal(m).original.at = m.live
         /\ SaveOriginal(m).home = m.live /\ SaveOriginal(m).live = m.live
         /\ SaveOriginal(m).pull = m.pull
BY RevertPlace DEF SaveOriginal, Place

LEMMA ResetPlace ==
  ASSUME NEW m \in Place, NEW ok \in BOOLEAN
  PROVE  /\ ResetPlayspace(m, ok) \in Place
         /\ ResetPlayspace(m, ok).home = m.home
         /\ m.original.saved => /\ ok => ResetPlayspace(m, ok).live = m.original.at
                                /\ ~ResetPlayspace(m, ok).pull.active
                                /\ ~ResetPlayspace(m, ok).original.saved
         /\ ~m.original.saved => ResetPlayspace(m, ok) = m
<1> DEFINE c == Commit(Revert(m), m.original.at, ok)
<1>1. m.original.at \in Int
  BY DEF Place
<1>2. /\ c \in Place /\ c.home = m.home
      /\ ok => c.live = m.original.at
  BY <1>1, RevertPlace, CommitPlace
<1>3. ~m.original.saved => ResetPlayspace(m, ok) = m
  BY DEF ResetPlayspace
<1>4. m.original.saved =>
        ResetPlayspace(m, ok) = [c EXCEPT !.original.saved = FALSE, !.pull.active = FALSE]
  BY DEF ResetPlayspace
<1> HIDE DEF c
<1> DEFINE o == [c.original EXCEPT !.saved = FALSE]
           g == [c.pull EXCEPT !.active = FALSE]
<1>5. /\ o \in [saved : BOOLEAN, at : Int] /\ ~o.saved
      /\ g \in [active : BOOLEAN, ref : Int, p0 : Int, s : Int] /\ ~g.active
  BY <1>2 DEF Place
<1>6. m.original.saved => ResetPlayspace(m, ok) = [[c EXCEPT !.original = o] EXCEPT !.pull = g]
  BY <1>2, <1>4 DEF Place
<1> HIDE DEF o, g
<1>7. m.original.saved =>
        /\ ResetPlayspace(m, ok) \in Place
        /\ ResetPlayspace(m, ok).live = c.live /\ ResetPlayspace(m, ok).home = c.home
        /\ ResetPlayspace(m, ok).original = o /\ ResetPlayspace(m, ok).pull = g
  BY <1>2, <1>5, <1>6 DEF Place
<1> QED
  BY <1>2, <1>3, <1>5, <1>7

LEMMA GrabPlace ==
  ASSUME Facts, NEW m \in Place
  PROVE  /\ Grab(m) \in Place
         /\ Grab(m).live = m.live
         /\ Grab(m).pull.s = Grab(m).pull.p0
         /\ Grab(m).pull.s = hand - m.live
         /\ m.original.saved => Grab(m).original = m.original /\ Grab(m).home = m.home
         /\ ~m.original.saved => /\ Grab(m).original.at = m.live
                                 /\ Grab(m).home = m.live
<1> DEFINE r == Revert(m)
           f == IF r.original.saved THEN r ELSE SaveOriginal(r)
           p == hand - r.live
<1>1. /\ r \in Place /\ r.live = m.live /\ r.working = m.live
      /\ r.original = m.original /\ r.home = m.home
  BY RevertPlace
<1>2. /\ f \in Place /\ f.live = m.live
      /\ m.original.saved => f.original = m.original /\ f.home = m.home
      /\ ~m.original.saved => /\ f.original.at = m.live
                              /\ f.home = m.live
  BY <1>1, SavePlace
<1>3. p \in Int /\ r.working \in Int
  BY <1>1 DEF Place, Facts
<1>4. Grab(m) = [f EXCEPT !.pull = [active |-> TRUE, ref |-> r.working, p0 |-> p, s |-> p]]
  BY DEF Grab
<1> DEFINE g == [active |-> TRUE, ref |-> r.working, p0 |-> p, s |-> p]
<1>5. g \in [active : BOOLEAN, ref : Int, p0 : Int, s : Int] /\ g.s = g.p0 /\ g.s = hand - m.live
  BY <1>1, <1>3
<1>6. Grab(m) = [f EXCEPT !.pull = g]
  BY <1>4
<1> HIDE DEF f, g
<1>7. /\ Grab(m) \in Place /\ Grab(m).pull = g
      /\ Grab(m).live = f.live /\ Grab(m).home = f.home /\ Grab(m).original = f.original
  BY <1>2, <1>5, <1>6 DEF Place
<1> QED
  BY <1>2, <1>5, <1>7

LEMMA SmoothedPlace ==
  ASSUME Facts, NEW m \in Place
  PROVE  /\ Smoothed(m) \in Place
         /\ Smoothed(m).live = m.live /\ Smoothed(m).home = m.home
         /\ Smoothed(m).original = m.original
         /\ Smoothed(m).pull.active = m.pull.active
         /\ Smoothed(m).pull.p0 = m.pull.p0 /\ Smoothed(m).pull.ref = m.pull.ref
         /\ m.pull.s = hand - m.live => Smoothed(m).pull.s = m.pull.s
<1> DEFINE move == Percent(hand - m.live - m.pull.s, Share(settings.mult))
<1>1. /\ hand - m.live - m.pull.s \in Int
      /\ Share(settings.mult) \in Int
  BY ShareNat DEF Facts, Place
<1>2. move \in Int
  BY <1>1, PercentInt
<1>3. m.pull.s = hand - m.live => move = 0
  BY <1>1 DEF Place, Facts, Percent
<1>4. Smoothed(m) = [m EXCEPT !.pull = [@ EXCEPT !.s = m.pull.s + move]]
  BY DEF Smoothed
<1> HIDE DEF move
<1> QED
  BY <1>2, <1>3, <1>4 DEF Place

\* The original is where the live centre was when it was saved.
Kept(m) == m.original.saved => m.original.at = m.home

\* At home, and what holds the playspace does not move it.
AtHome(m) ==
  /\ m.live = m.home
  /\ m.pull.active => m.pull.s = m.pull.p0 /\ m.pull.s = hand - m.live

LEMMA DragPlace ==
  ASSUME Facts, NEW m \in Place, NEW ok \in BOOLEAN, Kept(m), m.pull.active
  PROVE  /\ Drag(m, ok) \in Place /\ Kept(Drag(m, ok))
         /\ AtHome(m) => AtHome(Drag(m, ok))
<1> DEFINE r == Smoothed(m)
           delta == r.pull.s - r.pull.p0
           to == r.pull.ref + Clamp(delta * settings.mult, settings.mult)
<1>1. r \in Place /\ Kept(r) /\ (AtHome(m) => AtHome(r))
  BY SmoothedPlace DEF Kept, AtHome
<1>2. AtHome(m) => delta = 0
  BY <1>1, SmoothedPlace DEF AtHome, Place
<1> DEFINE rest == \/ delta = 0 \/ settings.mult <= 0
                   \/ settings.mult > 100 \/ since < Frames
<1>3. /\ rest => Drag(m, ok) = r
      /\ ~rest => delta # 0 /\ Drag(m, ok) = Commit(r, to, ok)
  <2>1. Drag(m, ok) = IF rest THEN r ELSE Commit(r, to, ok)
    BY DEF Drag
  <2> HIDE DEF r, to
  <2> QED
    BY <2>1
<1>4. to \in Int
  <2>1. r.pull.ref \in Int /\ delta \in Int /\ settings.mult \in Nat
    BY SmoothedPlace DEF Place, Facts
  <2>2. delta * settings.mult \in Int
    BY <2>1
  <2> QED
    BY <2>1, <2>2, ClampInt
<1>5. Commit(r, to, ok) \in Place /\ Kept(Commit(r, to, ok))
  BY <1>4, SmoothedPlace, CommitPlace DEF Kept
<1> QED
  BY <1>1, <1>2, <1>3, <1>5

LEMMA PullPlace ==
  ASSUME Facts, NEW m \in Place, NEW ok \in BOOLEAN, Kept(m)
  PROVE  /\ PullPlayspace(m, ok) \in Place /\ Kept(PullPlayspace(m, ok))
         /\ AtHome(m) => AtHome(PullPlayspace(m, ok))
<1>1. CASE m.pull.active
  BY <1>1, DragPlace DEF PullPlayspace
<1>2. CASE ~m.pull.active
  <2>1. PullPlayspace(m, ok) = Grab(m)
    BY <1>2 DEF PullPlayspace
  <2>2. Grab(m) \in Place
    BY GrabPlace
  <2>3. CASE m.original.saved
    BY <2>1, <2>2, <2>3, GrabPlace DEF Kept, AtHome
  <2>4. CASE ~m.original.saved
    <3>1. Grab(m).original.at = m.live /\ Grab(m).home = m.live
      BY <2>4, GrabPlace
    <3> QED
      BY <2>1, <2>2, <3>1, GrabPlace DEF Kept, AtHome
  <2> QED
    BY <2>3, <2>4
<1> QED
  BY <1>1, <1>2

LEMMA ResetHome ==
  ASSUME NEW m \in Place, NEW ok \in BOOLEAN, Kept(m)
  PROVE  /\ ResetPlayspace(m, ok) \in Place /\ Kept(ResetPlayspace(m, ok))
         /\ m.original.saved /\ ok => AtHome(ResetPlayspace(m, ok))
BY ResetPlace DEF Kept, AtHome

LEMMA OriginalHome ==
  ASSUME NEW m \in Place
  PROVE  SaveOriginal(m) \in Place /\ Kept(SaveOriginal(m))
BY SavePlace DEF Kept

-----------------------------------------------------------------------------
(* The invariant *)

\* The place of the state, as an Update finds it.
TypeInv ==
  /\ Here \in Place /\ hand \in Hands /\ clip \in [valid : BOOLEAN, at : Int]
  /\ settings \in Setting /\ config \in Setting /\ file \in Setting

IInv == TypeInv /\ Kept(Here) /\ (restored => AtHome(Here))

\* What a step leaves in the state is what it computed.
LEMMA Became ==
  ASSUME NEW m \in Place, Become(m), Kept(m), restored' => AtHome(m) /\ hand' = hand,
         hand' \in Hands, clip' \in [valid : BOOLEAN, at : Int],
         settings' \in Setting, config' \in Setting, file' \in Setting
  PROVE  IInv'
<1>1. /\ Here'.live = m.live /\ Here'.working = m.working /\ Here'.original = m.original
      /\ Here'.pull = m.pull /\ Here'.home = m.home
  BY DEF Here, Become
<1>2. Here' \in Place
  BY DEF Here, Become, Place
<1> QED
  BY <1>1, <1>2 DEF IInv, TypeInv, Kept, AtHome

LEMMA Typed == TypeInv => Here \in Place /\ Facts
BY PlayspaceAssumption DEF TypeInv, Facts, Setting

LEMMA UpdateInv ==
  ASSUME IInv, NEW reset \in BOOLEAN, NEW down \in BOOLEAN, NEW seen \in BOOLEAN,
         NEW resetOk \in BOOLEAN, NEW pullOk \in BOOLEAN,
         Update(reset, down, seen, resetOk, pullOk)
  PROVE  IInv'
<1> DEFINE m == IF reset /\ ~pressed THEN ResetPlayspace(Here, resetOk) ELSE Here
           n == [m EXCEPT !.commit = FALSE]
           l == [m EXCEPT !.pull.active = FALSE]
           r == IF ~down THEN l ELSE IF seen THEN PullPlayspace(n, pullOk) ELSE m
<1>1. Here \in Place /\ Facts /\ Kept(Here)
  BY Typed DEF IInv
<1>2. restored' => restored \/ (reset /\ ~pressed)
  BY DEF Update, Event
<1>3. restored' /\ reset /\ ~pressed => original.saved /\ resetOk
  BY DEF Update
<1>4. restored' /\ ~(reset /\ ~pressed) => restored
  BY <1>2
<1>5. m \in Place /\ Kept(m) /\ (restored' => AtHome(m))
  <2>1. CASE reset /\ ~pressed
    <3>1. m = ResetPlayspace(Here, resetOk)
      BY <2>1
    <3>2. Here.original = original
      BY DEF Here
    <3> QED
      BY <1>1, <1>3, <2>1, <3>1, <3>2, ResetHome
  <2>2. CASE ~(reset /\ ~pressed)
    BY <1>1, <1>4, <2>2 DEF IInv
  <2> QED
    BY <2>1, <2>2
<1> HIDE DEF m
<1>6. n \in Place /\ Kept(n) /\ (AtHome(m) => AtHome(n))
  BY <1>5 DEF Place, Kept, AtHome
<1>7. l \in Place /\ Kept(l) /\ (AtHome(m) => AtHome(l))
  <2> DEFINE g == [m.pull EXCEPT !.active = FALSE]
  <2>1. g \in [active : BOOLEAN, ref : Int, p0 : Int, s : Int] /\ ~g.active
    BY <1>5 DEF Place
  <2>2. l = [m EXCEPT !.pull = g]
    OBVIOUS
  <2> HIDE DEF g
  <2> QED
    BY <1>5, <2>1, <2>2 DEF Place, Kept, AtHome
<1> HIDE DEF n, l
<1>8. /\ PullPlayspace(n, pullOk) \in Place /\ Kept(PullPlayspace(n, pullOk))
      /\ AtHome(n) => AtHome(PullPlayspace(n, pullOk))
  BY <1>1, <1>6, PullPlace
<1>9. r \in Place /\ Kept(r) /\ (AtHome(m) => AtHome(r))
  BY <1>5, <1>6, <1>7, <1>8
<1>10. Become(r) /\ UNCHANGED <<hand, clip, settings, config, file>>
  BY DEF Update, savedVars, m, n, l
<1> HIDE DEF r
<1> QED
  BY <1>5, <1>9, <1>10, Became DEF IInv, TypeInv

\* A step that moves nothing and, where it is not an event, moves no hand.
LEMMA SamePlace ==
  ASSUME IInv, UNCHANGED placeVars, restored' => restored /\ hand' = hand,
         hand' \in Hands, clip' \in [valid : BOOLEAN, at : Int],
         settings' \in Setting, config' \in Setting, file' \in Setting
  PROVE  IInv'
<1>1. Become(Here)
  BY DEF Become, Here, placeVars
<1>2. Here \in Place /\ Kept(Here) /\ (restored => AtHome(Here))
  BY DEF IInv, TypeInv
<1> QED
  BY <1>1, <1>2, Became

LEMMA SaveTyped ==
  ASSUME NEW s \in Setting, file \in Setting, Save(s)
  PROVE  config' \in Setting /\ file' \in Setting
BY DEF Save

LEMMA ResetButtonInv == IInv /\ ResetButton => IInv'
<1> SUFFICES ASSUME IInv, ResetButton PROVE IInv'
  OBVIOUS
<1>1. PICK ok \in BOOLEAN : /\ Become(ResetPlayspace(Here, ok))
                            /\ restored' = (original.saved /\ ok)
  BY DEF ResetButton
<1>2. Here \in Place /\ Kept(Here) /\ Here.original = original
  BY Typed DEF IInv, Here
<1>3. UNCHANGED <<hand, clip, settings, config, file>>
  BY DEF ResetButton, savedVars
<1> QED
  BY <1>1, <1>2, <1>3, ResetHome, Became DEF IInv, TypeInv

LEMMA PasteInv == IInv /\ Paste => IInv'
<1> SUFFICES ASSUME IInv, Paste PROVE IInv'
  OBVIOUS
<1>1. PICK ok \in BOOLEAN : Become(Commit(Revert(Here), clip.at, ok))
  BY DEF Paste
<1> DEFINE c == Commit(Revert(Here), clip.at, ok)
<1>2. Here \in Place /\ Kept(Here) /\ clip.at \in Int
  BY Typed DEF IInv, TypeInv
<1>3. c \in Place /\ c.original = Here.original /\ c.home = Here.home
  BY <1>2, RevertPlace, CommitPlace
<1>4. Kept(c)
  BY <1>2, <1>3 DEF Kept
<1>5. ~restored' /\ UNCHANGED <<hand, clip, settings, config, file>>
  BY DEF Paste, Event, savedVars
<1> HIDE DEF c
<1> QED
  BY <1>1, <1>3, <1>4, <1>5, Became DEF c, IInv, TypeInv

LEMMA CopyInv == IInv /\ Copy => IInv'
<1> SUFFICES ASSUME IInv, Copy PROVE IInv'
  OBVIOUS
<1> DEFINE r == Revert(Here)
<1>1. Here \in Place /\ Kept(Here) /\ Here.live = live /\ live \in Int
  BY Typed DEF IInv, Here, Place
<1>2. r \in Place /\ Kept(r)
  BY <1>1, RevertPlace DEF Kept
<1>3. Become(r)
  BY DEF Copy, Become, Revert, Here
<1>4. /\ ~restored' /\ UNCHANGED <<hand, settings, config, file>>
      /\ clip' \in [valid : BOOLEAN, at : Int]
  BY <1>1 DEF Copy, Event, savedVars
<1> HIDE DEF r
<1> QED
  BY <1>2, <1>3, <1>4, Became DEF IInv, TypeInv

LEMMA NoClipTyped == NoClip \in [valid : BOOLEAN, at : Int]
BY DEF NoClip

LEMMA RestartInv == IInv /\ Restart => IInv'
<1> SUFFICES ASSUME IInv, Restart PROVE IInv'
  OBVIOUS
<1> DEFINE r == [Here EXCEPT !.working = live,
                             !.original = [original EXCEPT !.saved = FALSE],
                             !.pull = [pull EXCEPT !.active = FALSE]]
<1>1. Here \in Place
  BY Typed DEF IInv
<1>2. r \in Place /\ ~r.original.saved
  BY <1>1 DEF Here, Place
<1>3. Become(r)
  BY DEF Restart, Become, Here
<1>4. clip' \in [valid : BOOLEAN, at : Int]
  BY NoClipTyped DEF Restart, IInv, TypeInv
<1>5. /\ ~restored' /\ hand' = hand
      /\ settings' \in Setting /\ config' \in Setting /\ file' \in Setting
  BY DEF Restart, Event, IInv, TypeInv
<1> HIDE DEF r
<1> QED
  BY <1>2, <1>3, <1>4, <1>5, Became DEF IInv, TypeInv, Kept

LEMMA SaveOriginalInv == IInv /\ SaveOriginalPlayspace => IInv'
<1> SUFFICES ASSUME IInv, SaveOriginalPlayspace PROVE IInv'
  OBVIOUS
<1>1. Become(SaveOriginal(Here)) /\ ~restored'
  BY DEF SaveOriginalPlayspace, Event
<1>2. UNCHANGED <<hand, clip, settings, config, file>>
  BY DEF SaveOriginalPlayspace, savedVars
<1> QED
  BY <1>1, <1>2, Typed, OriginalHome, Became DEF IInv, TypeInv

LEMMA SettingsInv == IInv /\ (Checkbox \/ Slider) => IInv'
<1> SUFFICES ASSUME IInv, Checkbox \/ Slider PROVE IInv'
  OBVIOUS
<1>1. settings' \in Setting
  BY DEF Checkbox, Slider, IInv, TypeInv, Setting
<1>2. config' \in Setting /\ file' \in Setting
  BY <1>1, SaveTyped DEF Checkbox, Slider, IInv, TypeInv
<1>3. UNCHANGED placeVars /\ ~restored' /\ UNCHANGED <<hand, clip>>
  BY DEF Checkbox, Slider, Event
<1> QED
  BY <1>1, <1>2, <1>3, SamePlace DEF IInv, TypeInv

LEMMA QuietInv == IInv /\ (Idle \/ MoveHand \/ Button \/ ClearCalibration) => IInv'
<1> SUFFICES ASSUME IInv, Idle \/ MoveHand \/ Button \/ ClearCalibration PROVE IInv'
  OBVIOUS
<1>0. clip' \in [valid : BOOLEAN, at : Int]
  BY NoClipTyped DEF Idle, MoveHand, Button, ClearCalibration, IInv, TypeInv
<1>1. UNCHANGED placeVars /\ UNCHANGED <<settings, config, file>>
  BY DEF Idle, MoveHand, Button, ClearCalibration, savedVars
<1>2. hand' \in Hands /\ (restored' => restored /\ hand' = hand)
  BY DEF Idle, MoveHand, Button, ClearCalibration, Event, IInv, TypeInv
<1> QED
  BY <1>0, <1>1, <1>2, SamePlace DEF IInv, TypeInv

LEMMA StepInv == IInv /\ [Next]_vars => IInv'
<1> SUFFICES ASSUME IInv, [Next]_vars PROVE IInv'
  OBVIOUS
<1>1. CASE Frame
  BY <1>1, QuietInv, UpdateInv DEF Frame
<1>2. CASE MoveHand \/ Button \/ ClearCalibration
  BY <1>2, QuietInv
<1>3. CASE Checkbox \/ Slider
  BY <1>3, SettingsInv
<1>4. CASE SaveOriginalPlayspace
  BY <1>4, SaveOriginalInv
<1>5. CASE ResetButton
  BY <1>5, ResetButtonInv
<1>6. CASE Copy
  BY <1>6, CopyInv
<1>7. CASE Paste
  BY <1>7, PasteInv
<1>8. CASE Restart
  BY <1>8, RestartInv
<1>9. CASE UNCHANGED vars
  BY <1>9, SamePlace DEF vars, savedVars, IInv, TypeInv
<1> QED
  BY <1>1, <1>2, <1>3, <1>4, <1>5, <1>6, <1>7, <1>8, <1>9 DEF Next

LEMMA InitInv == Init => IInv
<1> SUFFICES ASSUME Init PROVE IInv
  OBVIOUS
<1>1. Here \in Place /\ Kept(Here) /\ ~restored
  BY DEF Init, Here, Place, Kept
<1>2. /\ hand \in Hands /\ clip \in [valid : BOOLEAN, at : Int]
      /\ settings \in Setting /\ config \in Setting /\ file \in Setting
  BY PlayspaceAssumption DEF Init, Setting
<1> QED
  BY <1>1, <1>2 DEF IInv, TypeInv

\* Where a reset put the playspace it stays until somebody does something, the
\* button of a drag held or not: what was grabbed before or is grabbed afterwards
\* has not moved, so that no later frame commits it (PlayspaceMovement.cpp).
THEOREM ResetStays == Spec => []ResetHolds
<1>1. Init => IInv
  BY InitInv
<1>2. IInv /\ [Next]_vars => IInv'
  BY StepInv
<1>3. IInv => ResetHolds
  BY DEF IInv, AtHome, Here, ResetHolds
<1> QED
  BY <1>1, <1>2, <1>3, PTL DEF Spec
-----------------------------------------------------------------------------
(* How far a drag goes *)

LEMMA ClampRange ==
  ASSUME NEW n \in Int, NEW k \in Nat
  PROVE  Clamp(n, k) \in -MaxDelta(k) .. MaxDelta(k)
BY DEF Clamp, MaxDelta

LEMMA DragWithin ==
  ASSUME Facts, NEW m \in Place, NEW ok \in BOOLEAN
  PROVE  \/ Drag(m, ok).live = m.live
         \/ Drag(m, ok).live - m.pull.ref
              \in -MaxDelta(settings.mult) .. MaxDelta(settings.mult)
<1> DEFINE r == Smoothed(m)
           delta == r.pull.s - r.pull.p0
           shift == Clamp(delta * settings.mult, settings.mult)
<1>1. /\ r \in Place /\ r.live = m.live /\ r.pull.ref = m.pull.ref
      /\ settings.mult \in Nat
  BY SmoothedPlace DEF Facts
<1>2. delta \in Int /\ m.pull.ref \in Int
  BY <1>1 DEF Place
<1>3. delta * settings.mult \in Int
  BY <1>1, <1>2
<1>4. shift \in -MaxDelta(settings.mult) .. MaxDelta(settings.mult) /\ shift \in Int
  BY <1>1, <1>3, ClampRange, ClampInt
<1>5. Drag(m, ok) = r \/ Drag(m, ok) = Commit(r, r.pull.ref + shift, ok)
  BY DEF Drag
<1> HIDE DEF r, delta, shift
<1>6. CASE Drag(m, ok) = r
  BY <1>1, <1>6
<1>7. CASE Drag(m, ok) = Commit(r, r.pull.ref + shift, ok)
  <2>1. r.pull.ref + shift \in Int /\ r.pull.ref + shift - m.pull.ref = shift
    BY <1>1, <1>2, <1>4
  <2>2. Drag(m, ok).live = r.live \/ Drag(m, ok).live = r.pull.ref + shift
    BY <1>1, <1>7, <2>1, CommitPlace
  <2>3. CASE Drag(m, ok).live = r.live
    BY <1>1, <2>3
  <2>4. CASE Drag(m, ok).live = r.pull.ref + shift
    <3>1. \A a, b, d \in Int : d = a + b => d - a = b
      OBVIOUS
    <3>2. Drag(m, ok).live - m.pull.ref = shift
      BY <1>1, <1>2, <1>4, <2>1, <2>4, <3>1
    <3> QED
      BY <1>4, <3>2
  <2> QED
    BY <2>2, <2>3, <2>4
<1> QED
  BY <1>5, <1>6, <1>7

Counted == events \in Nat

LEMMA EventsCounted == Spec => []Counted
<1>1. Init => Counted
  BY DEF Init, Counted
<1>2. [Next]_vars => events' = events \/ events' = events + 1
  <2>1. Event => events' = events + 1
    BY DEF Event
  <2>2. Idle => events' = events \/ events' = events + 1
    BY <2>1 DEF Idle
  <2>3. ASSUME NEW reset \in BOOLEAN, NEW down \in BOOLEAN, NEW seen \in BOOLEAN,
               NEW resetOk \in BOOLEAN, NEW pullOk \in BOOLEAN,
               Update(reset, down, seen, resetOk, pullOk)
        PROVE  events' = events \/ events' = events + 1
    BY <2>1, <2>3 DEF Update
  <2>4. Frame => events' = events \/ events' = events + 1
    BY <2>2, <2>3 DEF Frame
  <2>5. MoveHand \/ Button \/ Checkbox \/ Slider \/ SaveOriginalPlayspace \/ ResetButton
          \/ Copy \/ Paste \/ ClearCalibration \/ Restart => events' = events + 1
    BY <2>1 DEF MoveHand, Button, Checkbox, Slider, SaveOriginalPlayspace, ResetButton,
       Copy, Paste, ClearCalibration, Restart
  <2> QED
    BY <2>4, <2>5 DEF Next, vars
<1>3. Counted /\ [Next]_vars => Counted'
  BY <1>2 DEF Counted
<1> QED
  BY <1>1, <1>3, PTL DEF Spec

\* A drag's own commits are within the limit of its multiplier of where the
\* playspace was grabbed, however many they are and whatever the controller does
\* (the clamp of PullPlayspace, and its reference that no commit moves).
THEOREM DragLimited == Spec => DragBounded
<1> DEFINE Within == live' - pull.ref \in -MaxDelta(settings.mult) .. MaxDelta(settings.mult)
<1>1. ASSUME IInv, Counted, events' = events, pull.active, NEW reset \in BOOLEAN,
             NEW down \in BOOLEAN, NEW seen \in BOOLEAN, NEW resetOk \in BOOLEAN,
             NEW pullOk \in BOOLEAN, Update(reset, down, seen, resetOk, pullOk)
      PROVE  live' = live \/ Within
  <2> DEFINE n == [Here EXCEPT !.commit = FALSE]
             l == [Here EXCEPT !.pull.active = FALSE]
             r == IF ~down THEN l ELSE IF seen THEN PullPlayspace(n, pullOk) ELSE Here
  <2> DEFINE resets == reset /\ ~pressed
  <2>0. resets => events' = events + 1
    BY <1>1, Zenon DEF Update
  <2>1. ~resets
    BY <1>1, <2>0 DEF Counted
  <2>2. live' = r.live
    BY <1>1, <2>1 DEF Update, Become
  <2>3. Here \in Place /\ Facts /\ Here.live = live /\ Here.pull = pull
    BY <1>1, Typed DEF IInv, Here
  <2>4. n \in Place /\ n.live = live /\ n.pull = pull /\ l.live = live
    BY <2>3 DEF Place
  <2> HIDE DEF n, l
  <2>5. PullPlayspace(n, pullOk) = Drag(n, pullOk)
    BY <1>1, <2>4 DEF PullPlayspace
  <2>6. \/ Drag(n, pullOk).live = live
        \/ Drag(n, pullOk).live - pull.ref
             \in -MaxDelta(settings.mult) .. MaxDelta(settings.mult)
    BY <2>3, <2>4, DragWithin
  <2> QED
    BY <2>2, <2>3, <2>4, <2>5, <2>6
<1>2. ASSUME IInv, Counted, events' = events, pull.active, [Next]_vars
      PROVE  live' = live \/ Within
  <2>1. CASE Idle \/ UNCHANGED vars
    BY <2>1 DEF Idle, placeVars, vars
  <2>2. CASE Frame
    BY <1>1, <1>2, <2>1, <2>2 DEF Frame
  <2>3. CASE ~Frame /\ ~UNCHANGED vars
    BY <1>2, <2>3 DEF Next, MoveHand, Button, Checkbox, Slider,
       SaveOriginalPlayspace, ResetButton, Copy, Paste,
       ClearCalibration, Restart, Event, Counted
  <2> QED
    BY <2>1, <2>2, <2>3
<1>3. IInv /\ Counted /\ [Next]_vars =>
        [pull.active /\ pull'.active /\ pull'.ref = pull.ref /\ live' # live /\ events' = events
           => Within]_vars
  BY <1>2
<1>4. Spec => []IInv
  BY InitInv, StepInv, PTL DEF Spec
<1> QED
  BY <1>3, <1>4, EventsCounted, PTL DEF Spec, DragBounded

\* The settings in force are the ones on disk as soon as any of them is changed
\* and the file opens, over any number of sessions (CalibrationUI.cpp's tab and
\* Configuration.cpp): whatever switches movement on or changes it also saves.
THEOREM SettingsKept == Spec => []Remembered
<1>1. Init => Remembered
  BY DEF Init, Remembered
<1>2. ASSUME Remembered, [Next]_vars PROVE Remembered'
  <2>1. CASE UNCHANGED savedVars
    BY <1>2, <2>1 DEF Remembered, savedVars
  <2>2. CASE Checkbox
    BY <1>2, <2>2 DEF Remembered, Checkbox, Save
  <2>3. CASE Slider
    BY <2>3 DEF Remembered, Slider, Save
  <2>4. CASE Restart
    BY <2>4 DEF Remembered, Restart
  <2>5. Frame => UNCHANGED savedVars
    <3>1. ASSUME NEW reset \in BOOLEAN, NEW down \in BOOLEAN, NEW seen \in BOOLEAN,
                 NEW resetOk \in BOOLEAN, NEW pullOk \in BOOLEAN,
                 Update(reset, down, seen, resetOk, pullOk)
          PROVE  UNCHANGED savedVars
      BY <3>1, Zenon DEF Update, savedVars
    <3>2. Idle => UNCHANGED savedVars
      BY DEF Idle, savedVars
    <3> QED
      BY <3>1, <3>2 DEF Frame
  <2>6. MoveHand \/ Button \/ SaveOriginalPlayspace \/ ResetButton => UNCHANGED savedVars
    BY DEF MoveHand, Button, SaveOriginalPlayspace, ResetButton, savedVars
  <2>7. Copy \/ Paste \/ ClearCalibration \/ UNCHANGED vars => UNCHANGED savedVars
    BY DEF Copy, Paste, ClearCalibration, vars, savedVars
  <2> QED
    BY <1>2, <2>1, <2>2, <2>3, <2>4, <2>5, <2>6, <2>7 DEF Next
<1> QED
  BY <1>1, <1>2, PTL DEF Spec

-----------------------------------------------------------------------------
(* The types *)

\* What the invariant above leaves open.
Flags ==
  /\ pressed \in BOOLEAN /\ since \in 1 .. Frames /\ events \in 0 .. MaxEvents
  /\ lost \in BOOLEAN /\ held \in BOOLEAN /\ restored \in BOOLEAN

LEMMA FlagsStep == ASSUME IInv, Flags, [Next]_vars PROVE Flags'
<1>0. Frames \in Nat \ {0} /\ MaxEvents \in Nat /\ original.saved \in BOOLEAN
  BY PlayspaceAssumption DEF IInv, TypeInv, Here, Place
<1>1. Event => events' \in 0 .. MaxEvents /\ restored' \in BOOLEAN
  <2>1. Event => restored' \in BOOLEAN
    BY Zenon DEF Event
  <2>2. Event => events' \in 0 .. MaxEvents
    BY <1>0 DEF Event, Flags
  <2> QED
    BY <2>1, <2>2
<1>2. CASE Idle
  BY <1>0, <1>1, <1>2 DEF Idle, Flags, savedVars
<1>3. ASSUME NEW reset \in BOOLEAN, NEW down \in BOOLEAN, NEW seen \in BOOLEAN,
             NEW resetOk \in BOOLEAN, NEW pullOk \in BOOLEAN,
             Update(reset, down, seen, resetOk, pullOk)
      PROVE  Flags'
  <2>1. pressed' = reset /\ lost' = lost /\ held' = held
    BY <1>3 DEF Update, savedVars
  <2>2. since' \in {1, since} \/ (since < Frames /\ since' = since + 1)
    BY <1>3 DEF Update
  <2>3. \/ events < MaxEvents /\ events' = events + 1 /\ restored' = (original.saved /\ resetOk)
        \/ Event
        \/ UNCHANGED <<events, restored>>
    BY <1>3, Zenon DEF Update
  <2>4. since' \in 1 .. Frames
    BY <1>0, <2>2 DEF Flags
  <2>5. events' \in 0 .. MaxEvents /\ restored' \in BOOLEAN
    BY <1>0, <1>1, <2>3 DEF Flags
  <2> QED
    BY <2>1, <2>4, <2>5 DEF Flags
<1>4. CASE MoveHand \/ Button \/ Copy \/ Paste \/ ClearCalibration \/ SaveOriginalPlayspace
  BY <1>1, <1>4 DEF MoveHand, Button, Copy, Paste, ClearCalibration, SaveOriginalPlayspace,
                    Flags, savedVars
<1>5. CASE Checkbox \/ Slider
  BY <1>1, <1>5 DEF Checkbox, Slider, Save, Flags
<1>6. CASE ResetButton
  <2>1. restored' \in BOOLEAN
    BY <1>0, <1>6 DEF ResetButton
  <2>2. events' \in 0 .. MaxEvents
    BY <1>0, <1>6 DEF ResetButton, Flags
  <2> QED
    BY <1>6, <2>1, <2>2 DEF ResetButton, Flags, savedVars
<1>7. CASE Restart
  <2>1. pressed' \in BOOLEAN /\ lost' \in BOOLEAN
    BY <1>7, Zenon DEF Restart, Flags
  <2>2. since' \in 1 .. Frames
    BY <1>0, <1>7 DEF Restart
  <2> QED
    BY <1>1, <1>7, <2>1, <2>2 DEF Restart, Flags
<1>8. CASE UNCHANGED vars
  BY <1>8 DEF vars, savedVars, Flags
<1> QED
  BY <1>2, <1>3, <1>4, <1>5, <1>6, <1>7, <1>8 DEF Next, Frame

\* Every variable keeps to its type; in particular the frames since a commit and
\* the events stay counted within their bounds.
THEOREM TypeCorrect == Spec => []TypeOK
<1>1. Init => Flags
  <2>1. Init => since \in 1 .. Frames /\ events \in 0 .. MaxEvents
    BY PlayspaceAssumption DEF Init
  <2>2. Init => /\ pressed \in BOOLEAN /\ lost \in BOOLEAN
                /\ held \in BOOLEAN /\ restored \in BOOLEAN
    BY Zenon DEF Init
  <2> QED
    BY <2>1, <2>2 DEF Flags
<1>2. IInv /\ Flags => TypeOK
  BY DEF IInv, TypeInv, Here, Place, Flags, TypeOK
<1> QED
  BY <1>1, <1>2, InitInv, StepInv, FlagsStep, PTL DEF Spec
=============================================================================
