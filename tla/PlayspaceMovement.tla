------------------------- MODULE PlayspaceMovement -------------------------
(***************************************************************************)
(* Dragging the playspace with a controller (PlayspaceMovement.cpp), its   *)
(* tab (CalibrationUI.cpp), the chaperone's clipboard (Calibration.cpp)    *)
(* and the settings file both live in (Configuration.cpp).                 *)
(*                                                                         *)
(* One dimension, in centimetres. A place is the standing centre in raw   *)
(* coordinates; the collision bounds and the size of the play area are     *)
(* read, shifted and written together with it.  SteamVR reports the        *)
(* controller relative to the live centre, so a committed drag comes back  *)
(* as a controller that moved the other way.  workingCopyInitialized is    *)
(* left out: it only decides on reverts that complete writes follow.       *)
(* Initialize has succeeded; where it has not there is no movement at all. *)
(***************************************************************************)
EXTENDS Integers

CONSTANTS
  Hands,         \* raw positions of the controller
  Multipliers,   \* values of the Movement Multiplier
  Files,         \* settings of an earlier session, or the defaults
  Clips,         \* the chaperone of the profile
  Frames,        \* frames of the main loop in the 33 ms between commits
  MaxEvents      \* bound: what the user does, and what is not read or committed

ASSUME PlayspaceAssumption ==
  /\ Hands \subseteq Int /\ Multipliers \subseteq Nat
  /\ Files \subseteq [enabled : BOOLEAN, mult : Multipliers]
  /\ Clips \subseteq [valid : BOOLEAN, at : Int]
  /\ Frames \in Nat \ {0} /\ MaxEvents \in Nat

VARIABLES
  live, working,   \* the live centre and the overlay's working copy of it
  original,        \* settings.original
  pull,            \* m_pullActive, m_pullReference and the controller's poses
  pressed,         \* m_resetPressedLastFrame
  since,           \* frames since lastCommitTime, up to Frames
  settings,        \* settings.enabled and settings.movementMultiplier
  config, file,    \* the same in AppConfig and in config.json
  lost,            \* history: the last Save did not open config.json
  clip,            \* CalCtx.chaperone
  hand, held,      \* the controller, and its pull button
  home,            \* history: the live centre when the original was saved
  restored,        \* history: a reset has succeeded and nothing happened since
  events

placeVars == <<live, working, original, pull, home>>
savedVars == <<settings, config, file, lost>>
vars == <<placeVars, pressed, since, savedVars, clip, hand, held, restored, events>>

Setting == [enabled : BOOLEAN, mult : Multipliers]

Init ==
  /\ live = 0 /\ working = 0
  /\ original = [saved |-> FALSE, at |-> 0]
  /\ pull = [active |-> FALSE, ref |-> 0, p0 |-> 0, s |-> 0]
  /\ pressed = FALSE /\ since = Frames
  /\ file \in Files /\ config = file /\ settings = config /\ lost = FALSE
  /\ clip \in Clips
  /\ hand \in Hands /\ held \in BOOLEAN
  /\ home = 0 /\ restored = FALSE /\ events = 0

-----------------------------------------------------------------------------
(* What one Update does to the place: m is the place it finds.             *)

Here == [live |-> live, working |-> working, original |-> original, pull |-> pull,
         home |-> home, commit |-> FALSE]

\* The smoothing's products of doubles, cut to a centimetre.
Percent(n, k) == IF n < 0 THEN -((-n * k) \div 100) ELSE (n * k) \div 100

\* The share of the new position in the smoothed one: 1 - smoothingFactor.
Share(k) == IF k <= 3 THEN 15 ELSE IF k >= 8 THEN 10 ELSE 2 + k

MaxDelta(k) ==
  IF k <= 2 THEN 200 ELSE IF 75 + 50 * k > 500 THEN 500 ELSE 75 + 50 * k

Clamp(n, k) ==
  IF n > MaxDelta(k) THEN MaxDelta(k) ELSE IF n < -MaxDelta(k) THEN -MaxDelta(k) ELSE n

\* CommitWorkingCopy of a place written into the working copy.
Commit(m, to, ok) ==
  [m EXCEPT !.working = to, !.live = IF ok THEN to ELSE @, !.commit = TRUE]

\* RevertWorkingCopy, and the place as read from the working copy.
Revert(m) == [m EXCEPT !.working = m.live]

SaveOriginal(m) ==
  LET r == Revert(m)
  IN  [r EXCEPT !.original = [saved |-> TRUE, at |-> r.working], !.home = r.live]

\* Mutant: the drag goes on after a reset.
ResetKeepsGrab(m, ok) ==
  IF m.original.saved
  THEN [Commit(Revert(m), m.original.at, ok) EXCEPT !.original.saved = FALSE]
  ELSE m

\* The result of the commit is not looked at.
ResetPlayspace(m, ok) ==
  IF m.original.saved
  THEN [Commit(Revert(m), m.original.at, ok) EXCEPT
          !.original.saved = FALSE, !.pull.active = FALSE]
  ELSE m

\* The first frame of a grab; the first grab of all saves the original.
Grab(m) ==
  LET r == Revert(m)
      p == hand - r.live
      f == IF r.original.saved THEN r ELSE SaveOriginal(r)
  IN  [f EXCEPT !.pull = [active |-> TRUE, ref |-> r.working, p0 |-> p, s |-> p]]

\* Mutant: the controller as it is.
Unsmoothed(m) == [m EXCEPT !.pull.s = hand - m.live]

Smoothed(m) ==
  [m EXCEPT !.pull.s = @ + Percent(hand - m.live - @, Share(settings.mult))]

\* Mutant: from where the playspace is now, not from the reference.
DragFromLive(m, ok) ==
  LET r == Smoothed(m)
      delta == r.pull.s - r.pull.p0
      k == settings.mult
  IN  IF delta = 0 \/ k <= 0 \/ k > 100 \/ since < Frames THEN r
      ELSE Commit(r, r.live + Clamp(delta * k, k), ok)

\* The following frames: a commit every 33 ms, of the reference and how far the
\* smoothed controller is from where it was grabbed.
Drag(m, ok) ==
  LET r == Smoothed(m)
      delta == r.pull.s - r.pull.p0
      k == settings.mult
  IN  IF delta = 0 \/ k <= 0 \/ k > 100 \/ since < Frames THEN r
      ELSE Commit(r, r.pull.ref + Clamp(delta * k, k), ok)

PullPlayspace(m, ok) == IF m.pull.active THEN Drag(m, ok) ELSE Grab(m)

\* Whether this Update is one where the drag committed: it restarts the 33 ms.
Dragged(m, r) == m.pull.active /\ r.commit

-----------------------------------------------------------------------------
(* The main loop *)

Become(m) ==
  /\ live' = m.live /\ working' = m.working /\ original' = m.original
  /\ pull' = m.pull /\ home' = m.home

Event == events < MaxEvents /\ events' = events + 1 /\ restored' = FALSE

\* The button, the pull action as it is read, the controller's pose and the two
\* commits of an Update.
Update(reset, down, seen, resetOk, pullOk) ==
  LET m == IF reset /\ ~pressed THEN ResetPlayspace(Here, resetOk) ELSE Here
      r == IF ~down THEN [m EXCEPT !.pull.active = FALSE]
           ELSE IF seen THEN PullPlayspace([m EXCEPT !.commit = FALSE], pullOk) ELSE m
  IN  /\ settings.enabled
      /\ Become(r)
      /\ pressed' = reset
      /\ since' = IF down /\ seen /\ Dragged(m, r) THEN 1
                  ELSE IF since < Frames THEN since + 1 ELSE since
      /\ IF reset /\ ~pressed
         THEN /\ events < MaxEvents /\ events' = events + 1
              /\ restored' = (original.saved /\ resetOk)
         ELSE IF down # held \/ ~seen \/ ~pullOk THEN Event ELSE UNCHANGED <<events, restored>>
      /\ UNCHANGED <<savedVars, clip, hand, held>>

\* Mutant: the time since the last commit keeps growing.
IdleUncapped ==
  /\ since' = since + 1
  /\ IF settings.enabled THEN Event ELSE UNCHANGED <<events, restored>>
  /\ UNCHANGED <<placeVars, pressed, savedVars, clip, hand, held>>

\* Disabled, or UpdateActionState fails.
Idle ==
  /\ since' = IF since < Frames THEN since + 1 ELSE since
  /\ IF settings.enabled THEN Event ELSE UNCHANGED <<events, restored>>
  /\ UNCHANGED <<placeVars, pressed, savedVars, clip, hand, held>>

Frame ==
  \/ Idle
  \/ \E reset, down, seen, resetOk, pullOk \in BOOLEAN :
       down \in {held, FALSE} /\ Update(reset, down, seen, resetOk, pullOk)

\* A frame in which everything is read and committed.
GoodFrame == Update(FALSE, held, TRUE, TRUE, TRUE)

-----------------------------------------------------------------------------
(* The user *)

MoveHand ==
  /\ Event /\ hand' \in Hands \ {hand}
  /\ UNCHANGED <<placeVars, pressed, since, savedVars, clip, held>>

Button ==
  /\ Event /\ held' = ~held
  /\ UNCHANGED <<placeVars, pressed, since, savedVars, clip, hand>>

\* BuildPlayspaceMovementTab: the checkbox is saved where it is on afterwards.
Save(s) ==
  /\ config' = s
  /\ lost' \in BOOLEAN
  /\ file' = IF lost' THEN file ELSE s

Checkbox ==
  /\ Event
  /\ settings' = [settings EXCEPT !.enabled = ~@]
  /\ IF settings'.enabled THEN Save(settings') ELSE UNCHANGED <<config, file, lost>>
  /\ UNCHANGED <<placeVars, pressed, since, clip, hand, held>>

\* Mutant: only the checkbox is saved.
SliderUnsaved ==
  /\ Event /\ settings.enabled
  /\ \E k \in Multipliers \ {settings.mult} : settings' = [settings EXCEPT !.mult = k]
  /\ UNCHANGED <<placeVars, pressed, since, config, file, lost, clip, hand, held>>

Slider ==
  /\ Event /\ settings.enabled
  /\ \E k \in Multipliers \ {settings.mult} : settings' = [settings EXCEPT !.mult = k]
  /\ Save(settings')
  /\ UNCHANGED <<placeVars, pressed, since, clip, hand, held>>

SaveOriginalPlayspace ==
  /\ Event /\ settings.enabled
  /\ Become(SaveOriginal(Here))
  /\ UNCHANGED <<pressed, since, savedVars, clip, hand, held>>

ResetButton ==
  /\ events < MaxEvents /\ events' = events + 1
  /\ settings.enabled
  /\ \E ok \in BOOLEAN :
       /\ Become(ResetPlayspace(Here, ok))
       /\ restored' = (original.saved /\ ok)
  /\ UNCHANGED <<pressed, since, savedVars, clip, hand, held>>

\* LoadChaperoneBounds and ApplyChaperoneBounds.
Copy ==
  /\ Event
  /\ working' = live
  /\ clip' = [valid |-> TRUE, at |-> working']
  /\ UNCHANGED <<live, original, pull, home, pressed, since, savedVars, hand, held>>

Paste ==
  /\ Event /\ clip.valid
  /\ \E ok \in BOOLEAN : Become(Commit(Revert(Here), clip.at, ok))
  /\ UNCHANGED <<pressed, since, savedVars, clip, hand, held>>

\* The Clear Calibration button: CalCtx.Clear.
NoClip == [valid |-> FALSE, at |-> 0]

ClearCalibration ==
  /\ Event /\ clip.valid
  /\ clip' = NoClip
  /\ UNCHANGED <<placeVars, pressed, since, savedVars, hand, held>>

\* The overlay exits or crashes and is started again: the escape key saves
\* AppConfig once more, the original and the working copy are gone, and so is
\* the copied chaperone where the profile it was to be saved with is not valid.
Restart ==
  /\ Event
  /\ \/ UNCHANGED <<file, lost>>
     \/ file' = config /\ lost' = FALSE
  /\ config' = file' /\ settings' = config'
  /\ working' = live
  /\ original' = [original EXCEPT !.saved = FALSE]
  /\ pull' = [pull EXCEPT !.active = FALSE]
  /\ pressed' = FALSE /\ since' = Frames
  /\ clip' \in {clip, NoClip}
  /\ UNCHANGED <<live, home, hand, held>>

Next ==
  \/ Frame \/ MoveHand \/ Button \/ Checkbox \/ Slider
  \/ SaveOriginalPlayspace \/ ResetButton \/ Copy \/ Paste
  \/ ClearCalibration \/ Restart

Spec == Init /\ [][Next]_vars

\* The main loop goes on; MaxEvents bounds how often an input or a commit fails.
FairSpec == Spec /\ WF_vars(GoodFrame)

-----------------------------------------------------------------------------
(* Properties *)

TypeOK ==
  /\ live \in Int /\ working \in Int /\ home \in Int /\ hand \in Hands
  /\ original \in [saved : BOOLEAN, at : Int]
  /\ pull \in [active : BOOLEAN, ref : Int, p0 : Int, s : Int]
  /\ pressed \in BOOLEAN /\ since \in 1 .. Frames
  /\ settings \in Setting /\ config \in Setting /\ file \in Setting
  /\ lost \in BOOLEAN /\ held \in BOOLEAN /\ restored \in BOOLEAN
  /\ clip \in [valid : BOOLEAN, at : Int]
  /\ events \in 0 .. MaxEvents

\* A reset puts the playspace back where it was when the original was saved, and
\* there it stays as long as nobody does anything: a drag that was going on, or
\* the grab of the button still held, does not move it away again.
ResetHolds == restored => live = home

\* No drag leaves the playspace further from where it was grabbed than the limit
\* of the multiplier, however many frames and commits it lasts and whatever the
\* controller does.
DragBounded ==
  [][pull.active /\ pull'.active /\ pull'.ref = pull.ref /\ live' # live /\ events' = events =>
       live' - pull.ref \in -MaxDelta(settings.mult) .. MaxDelta(settings.mult)]_vars

\* With multiplier 1 a drag comes to rest when the controller does, though every
\* commit moves the controller it follows.
Dragging == held /\ settings.enabled /\ pull.active /\ settings.mult = 1

DragSettles == <>[]Dragging => <>[][live' = live]_vars

\* With multiplier 1 the playspace moves as far as the controller, as the settings
\* tab and the README have it.  Slack is more than the dead zone and the cuts to a
\* centimetre leave.
Travel == hand - (pull.p0 + pull.ref)
Slack == 12
OneToOne == <>[]Dragging => <>[](live - pull.ref - Travel \in -Slack .. Slack)

\* While playspace movement is on, config.json holds the settings in force, so
\* that the next start finds them, unless it could not be written.
Remembered == settings.enabled /\ ~lost => file = settings
=============================================================================
