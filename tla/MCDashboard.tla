---------------------------- MODULE MCDashboard -----------------------------
(***************************************************************************)
(* For TLC, what a person sits in front of: the desktop shell (Shell), the *)
(* dashboard (Tui) and the runtime under the dashboard (Program).  They    *)
(* have no state in common here, and a behaviour is one of one of them.    *)
(***************************************************************************)
EXTENDS Shell, Tui, Program

VARIABLE part

mc_vars == <<part, vars, tui_vars, program_vars>>

MCLimits  == <<2, 1>>
MCSamples == {[comm |-> "vim", is_alert |-> FALSE], [comm |-> "vim", is_alert |-> TRUE],
              [comm |-> "waybar", is_alert |-> FALSE]}

(* A step of one part. *)
Desktop(A) == part = "shell" /\ A /\ UNCHANGED <<part, tui_vars, program_vars>>
Board(A)   == part = "dashboard" /\ A /\ UNCHANGED <<part, vars, program_vars>>
Runtime(A) == part = "runtime" /\ A /\ UNCHANGED <<part, vars, tui_vars>>

MCInit == part \in {"shell", "dashboard", "runtime"} /\ Init /\ TuiInit /\ ProgramInit

MCNext == Desktop(Next) \/ Board(TuiNext) \/ Runtime(ProgramNext)

(* The fairness of each part. *)
MCSpec ==
  /\ MCInit /\ [][MCNext]_mc_vars
  /\ WF_mc_vars(Desktop(Command))
  /\ \A c \in Children : WF_mc_vars(Desktop(Thread(c)))
  /\ WF_mc_vars(Board(Poll))
  /\ WF_mc_vars(Board(Tick)) /\ WF_mc_vars(Board(Receive \/ Apply))
  /\ WF_mc_vars(Runtime(MainStep)) /\ WF_mc_vars(Runtime(SignalStep))
  /\ SF_mc_vars(Runtime(Alive /\ LockCleanup))
=============================================================================
