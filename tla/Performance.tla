---------------------------- MODULE Performance ----------------------------
(***************************************************************************)
(* Performance mode (vao_blender/blender/performance.py) and the preview   *)
(* button, the two users of the audio engine.  The modal operator turns    *)
(* computer keys and mouse picks into gates; session.pressed_gates says    *)
(* which gates are down.  A computer key is named by the gate it is mapped *)
(* to.                                                                     *)
(***************************************************************************)
EXTENDS AudioEngine

CONSTANT Independent   \* configurations that do not exclude others

VARIABLES
  mode,      \* the modal operator runs
  keys,      \* _pressed: the mapped keys it has seen go down
  mouse,     \* _mouse_gate
  pressed    \* session.pressed_gates

user == <<mode, keys, mouse, pressed>>
vars == <<engine, configs, call, user>>

TypeOK ==
  /\ EngineTypeOK
  /\ mode \in BOOLEAN
  /\ keys \subseteq Gate
  /\ mouse \in Gate \cup {NoGate}
  /\ pressed \subseteq Gate

Init ==
  /\ EngineInit
  /\ configs \in SUBSET Config
  /\ mode = FALSE
  /\ keys = {}
  /\ mouse = NoGate
  /\ pressed = {}

Idle == phase = "idle"

-----------------------------------------------------------------------------
(* invoke()                                                                *)
Enter ==
  /\ Idle /\ ~mode
  /\ mode' = TRUE
  /\ keys' = {}
  /\ mouse' = NoGate
  /\ UNCHANGED <<engine, configs, call, pressed>>

(* _gate(opening): only a gate that is not down yet is opened; it is down  *)
(* when open_gate has started voices (see Return).                         *)
GateDown(g) ==
  \/ g \notin pressed /\ Open(g, "press")
  \/ g \notin pressed /\ Reject(g, "press")
  \/ /\ g \in pressed \/ ~Startable(g)
     /\ UNCHANGED <<engine, call>>

GateUp(g) ==
  /\ CloseGate(g)
  /\ pressed' = pressed \ {g}
  /\ UNCHANGED previews

KeyPress(g) ==
  /\ Idle /\ mode /\ g \notin keys
  /\ keys' = keys \cup {g}
  /\ GateDown(g)
  /\ UNCHANGED <<configs, mode, mouse, pressed>>

(* Also of a key that was down before the mode began.                      *)
KeyRelease(g) ==
  /\ Idle /\ mode
  /\ keys' = keys \ {g}
  /\ GateUp(g)
  /\ UNCHANGED <<configs, call, mode, mouse>>

(* The button by which a gate is held is down, and a button that is down   *)
(* is not pressed: Blender tells of its release first, or that the window  *)
(* is no longer active, and of a second click by a value of its own, which *)
(* modal() passes over.                                                    *)
ButtonUp == mouse = NoGate

MousePress(g) ==
  /\ Idle /\ mode /\ ButtonUp
  /\ mouse' = g
  /\ GateDown(g)
  /\ UNCHANGED <<configs, mode, keys, pressed>>

MouseRelease ==
  /\ Idle /\ mode /\ mouse # NoGate
  /\ mouse' = NoGate
  /\ GateUp(mouse)
  /\ UNCHANGED <<configs, call, mode, keys>>

(* A click on a configuration toggles it; one that is not independent      *)
(* replaces the others that are not.  Voices already playing stay.         *)
PickConfiguration(c) ==
  /\ Idle /\ mode
  /\ configs' = IF c \in configs THEN configs \ {c}
                ELSE IF c \in Independent THEN configs \cup {c}
                ELSE (configs \cap Independent) \cup {c}
  /\ UNCHANGED <<engine, call, user>>

(* _finish(): Escape, loss of the window or the viewport, or of the        *)
(* session.                                                                *)
Finish ==
  /\ Idle /\ mode
  /\ Shutdown
  /\ mode' = FALSE /\ keys' = {} /\ mouse' = NoGate /\ pressed' = {}
  /\ UNCHANGED <<configs, call>>

(* session.stop_audio() from elsewhere: closing the package, a new         *)
(* validation, removing the imported scene.                                *)
StopAudio ==
  /\ Idle
  /\ Shutdown
  /\ pressed' = {}
  /\ UNCHANGED <<configs, call, mode, keys, mouse>>

-----------------------------------------------------------------------------
(* The preview button; the modal operator keeps its clicks from the panel. *)
Preview(g) ==
  /\ Idle /\ ~mode /\ previews[g] < MaxPreviews
  /\ Open(g, "preview") \/ Reject(g, "preview")
  /\ UNCHANGED <<configs, user>>

Over == phase' = "idle" /\ opening' = NoGate /\ caller' = "none" /\ UNCHANGED <<todo, ready>>

(* open_gate() returns the number of voices: the pressed gate is recorded, *)
(* the preview gets its timer or, without one, is closed at once.          *)
ReturnPress ==
  /\ phase = "return" /\ caller = "press"
  /\ pressed' = pressed \cup {opening}
  /\ Over
  /\ UNCHANGED <<engine, configs, mode, keys, mouse>>

(* Slip: without a timer the previewed gate is left alone.                 *)
ReturnPreviewOpen ==
  /\ phase = "return" /\ caller = "preview"
  /\ \/ previews' = [previews EXCEPT ![opening] = @ + 1]
        /\ UNCHANGED <<voice, sounds, held>>
     \/ UNCHANGED engine
  /\ Over
  /\ UNCHANGED <<configs, user>>

ReturnPreview ==
  /\ phase = "return" /\ caller = "preview"
  /\ \/ previews' = [previews EXCEPT ![opening] = @ + 1]
        /\ UNCHANGED <<voice, sounds, held>>
     \/ CloseGate(opening) /\ UNCHANGED previews
  /\ Over
  /\ UNCHANGED <<configs, user>>

(* open_gate() raises: performance mode ends, a preview only reports.      *)
RaisePress ==
  /\ phase = "failed" /\ caller = "press"
  /\ Shutdown
  /\ mode' = FALSE /\ keys' = {} /\ mouse' = NoGate /\ pressed' = {}
  /\ Over
  /\ UNCHANGED configs

RaisePreview ==
  /\ phase = "failed" /\ caller = "preview"
  /\ Over
  /\ UNCHANGED <<engine, configs, user>>

-----------------------------------------------------------------------------
Call ==
  /\ \/ Resolve \/ ResolveFails \/ LockDevice
     \/ Play \/ PlayFails \/ UnlockDevice
  /\ UNCHANGED <<configs, user>>

Timers ==
  /\ \/ \E p \in Plan : RampEnds(p) \/ RampFails(p)
     \/ \E g \in Gate : PreviewEnds(g)
  /\ UNCHANGED user

Next ==
  \/ Enter \/ Finish \/ StopAudio \/ MouseRelease
  \/ \E g \in Gate : KeyPress(g) \/ KeyRelease(g) \/ MousePress(g) \/ Preview(g)
  \/ \E c \in Config : PickConfiguration(c)
  \/ ReturnPress \/ ReturnPreview \/ RaisePress \/ RaisePreview
  \/ Call \/ Timers

Spec == Init /\ [][Next]_vars

(* A call runs to its end.  The timers wait while one does, and run        *)
(* between two of them: Blender serves the timers that are due on every    *)
(* turn of its event loop, however many operators it starts.               *)
FairSpec ==
  /\ Spec
  /\ WF_vars(Call \/ ReturnPress \/ ReturnPreview \/ RaisePress \/ RaisePreview)
  /\ \A p \in Plan : SF_vars(RampEnds(p) /\ UNCHANGED user)
  /\ \A g \in Gate : SF_vars(PreviewEnds(g) /\ UNCHANGED user)

-----------------------------------------------------------------------------
Held(g) == mode /\ (g \in keys \/ g = mouse)

(* No stuck notes: the voices of a gate nobody holds fall silent, unless   *)
(* somebody takes it again first.                                          *)
NoStuckNotes ==
  \A g \in Gate : Idle /\ ~Held(g) ~> ByGate(g) = {} \/ Held(g)

(* docs/CUNTZ_REFERENCE.md: "Key-down opens one gate and key-up closes the *)
(* same gate".  A gate that stays down is then not released by anything    *)
(* else.                                                                   *)
OnlyKeyUpReleases ==
  [][\A g \in pressed \cap pressed' : \A p \in PlansOf(g) :
       voice[p] \in {"attack", "sustain"} => voice'[p] # "release"]_vars
=============================================================================
