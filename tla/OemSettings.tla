------------------------------ MODULE OemSettings ------------------------------
(***************************************************************************)
(* The checked settings of oem/dell.rs and oem/sun.rs: each setter checks  *)
(* the controller's generation, reads what it must preserve or may not     *)
(* exceed, and then writes once.  Every command follows an identity check  *)
(* (send_oem()).  Another console may change a setting, and the target may *)
(* be replaced by another generation, between any two of these commands.   *)
(***************************************************************************)
EXTENDS Integers, Sequences

VARIABLES
    pc, executed, confirmed,    \* see OneShot
    setter, generation,         \* fixed: the call, the generation dell() saw
    copy,                       \* the settings read, rewritten with the change
    outcome,
    controller,                 \* the target: its generation,
    settings, permitted,        \* its settings, and whether the change is allowed
    theirs, late                \* the field another console changed (once), and
                                \* whether its old value had been read

transfer == <<pc, executed, confirmed>>
call == <<setter, generation>>
target == <<controller, settings, permitted>>
other == <<theirs, late>>
local == <<call, copy, outcome, target, other>>
vars == <<transfer, local>>

(* The field each setter changes, among those its write carries: the LCD   *)
(* configuration (mode, qualifier, errors), the LCD status (kvm, lock) or  *)
(* the power budget (cap, limits).  The others write only what they change.*)
Setters == {"lcd_mode", "lcd_qualifier", "lcd_error_display", "lcd_kvm", "lcd_lock",
            "power_budget", "power_cap", "nic_mode", "clear_power", "drive_led", "sun_led"}
Fields == {"mode", "qualifier", "errors", "kvm", "lock", "cap", "limits", "other"}
Changes ==
    CASE setter = "lcd_mode" -> "mode"       [] setter = "lcd_qualifier" -> "qualifier"
      [] setter = "lcd_error_display" -> "errors"
      [] setter = "lcd_kvm" -> "kvm"         [] setter = "lcd_lock" -> "lock"
      [] setter = "power_budget" -> "cap"    [] OTHER -> "other"

Carries ==
    CASE setter \in {"lcd_mode", "lcd_qualifier", "lcd_error_display"} ->
           IF generation = "10G" THEN {"mode"} ELSE {"mode", "qualifier", "errors"}
      [] setter \in {"lcd_kvm", "lcd_lock"} -> {"kvm", "lock"}
      [] setter = "power_budget" -> {"cap", "limits"}
      [] OTHER -> {"other"}

(* The extended LCD settings exist from 11G on; Sun has no generations.    *)
Supported ==
    /\ generation = "10G" => setter \notin {"lcd_qualifier", "lcd_error_display"}
    /\ setter = "sun_led" => generation = "11G"

(* The reads of each setter, after the generation check. *)
Reads ==
    CASE setter \in {"lcd_mode", "lcd_qualifier", "lcd_error_display", "power_budget"} ->
           <<"permission", "settings">>
      [] setter \in {"lcd_kvm", "lcd_lock"} -> <<"both">>
      [] setter = "power_cap" -> <<"permission">>
      [] OTHER -> <<"probe">>

Write(op, at) == [op |-> op, at |-> at]
Plan == <<Write(setter, 0)>>

Init ==
    /\ pc = "start" /\ executed = <<>> /\ confirmed = 0
    /\ setter \in Setters /\ generation \in {"10G", "11G"}
    /\ copy = [f \in Fields |-> "unread"]
    /\ outcome = "none"
    /\ controller = generation
    /\ settings = [f \in Fields |-> "old"] /\ permitted \in BOOLEAN
    /\ theirs = "none" /\ late = FALSE
-----------------------------------------------------------------------------
Stop(result) == pc' = "done" /\ outcome' = result

Start ==
    /\ pc = "start"
    /\ IF Supported
       THEN pc' = (IF setter = "sun_led" THEN "read1" ELSE "generation") /\ UNCHANGED outcome
       ELSE Stop("unsupported")
    /\ UNCHANGED <<executed, confirmed, call, copy, target, other>>

(* before_write(): the controller must still be the one dell() found. *)
BeforeWrite ==
    IF controller = generation THEN pc' = "read1" /\ UNCHANGED outcome ELSE Stop("unsupported")

CheckGeneration ==
    /\ pc = "generation"
    /\ BeforeWrite \/ Stop("error")
    /\ UNCHANGED <<executed, confirmed, call, copy, target, other>>

(* One read: the write's permission (lcd_writable(), power_cap_status()),  *)
(* a copy of what the write carries, or both; any may refuse the change.   *)
Copied == [f \in Fields |-> IF f \in Carries THEN settings[f] ELSE copy[f]]

Read ==
    /\ pc \in {"read1", "read2"}
    /\ LET k == IF pc = "read1" THEN 1 ELSE 2
       IN \/ /\ Reads[k] \in {"permission", "both"} => permitted
             /\ copy' = IF Reads[k] \in {"settings", "both"} THEN Copied ELSE copy
             /\ pc' = (IF k < Len(Reads) THEN "read2" ELSE "write") /\ UNCHANGED outcome
          \/ (Reads[k] # "permission" \/ ~permitted) /\ Stop("refused") /\ UNCHANGED copy
          \/ Stop("error") /\ UNCHANGED copy
    /\ UNCHANGED <<executed, confirmed, call, target, other>>

(* The write: the fields it carries as they were read, but one. *)
Written(f) ==
    IF f = Changes THEN "new" ELSE IF f \in Carries THEN copy[f] ELSE settings[f]

Outcomes ==
    {[answer |-> "ok", carried |-> TRUE], [answer |-> "NotSent", carried |-> FALSE],
     [answer |-> "error", carried |-> FALSE], [answer |-> "error", carried |-> TRUE]}

Set ==
    /\ pc = "write"
    /\ \E o \in Outcomes :
         /\ executed' = IF o.carried THEN Append(executed, Plan[1]) ELSE executed
         /\ confirmed' = IF o.answer = "ok" THEN 1 ELSE 0
         /\ settings' = IF o.carried THEN [f \in Fields |-> Written(f)] ELSE settings
         /\ Stop(o.answer)
    /\ UNCHANGED <<call, copy, controller, permitted, other>>

(* Another console. *)
Meddle ==
    /\ theirs = "none" /\ pc # "done"
    /\ \E f \in Fields :
         /\ theirs' = f /\ late' = (copy[f] # "unread")
         /\ settings' = [settings EXCEPT ![f] = "theirs"]
    /\ UNCHANGED <<transfer, call, copy, outcome, controller, permitted>>

Replace ==
    /\ controller = generation /\ pc \in {"start", "generation"} /\ setter # "sun_led"
    /\ controller' \in {"10G", "11G"} \ {generation}
    /\ UNCHANGED <<transfer, call, copy, outcome, settings, permitted, other>>

Next == Start \/ CheckGeneration \/ Read \/ Set \/ Meddle \/ Replace

Spec == Init /\ [][Next]_vars
-----------------------------------------------------------------------------
TypeOK ==
    /\ pc \in {"start", "generation", "read1", "read2", "write", "done"}
    /\ outcome \in {"none", "unsupported", "refused", "error", "NotSent", "ok"}
    /\ settings \in [Fields -> {"old", "theirs", "new"}]

Halted == pc = "done"
Succeeded == outcome = "ok"

(* A setting that is written changes that setting: the others are as they  *)
(* were, and a change of another console is undone only when it came after *)
(* the read of what the write carries.                                     *)
OthersPreserved ==
    Succeeded =>
      /\ settings[Changes] = "new" /\ controller = generation /\ Supported
      /\ \A f \in Fields \ {Changes, theirs} : settings[f] = "old"
      /\ theirs \notin {"none", Changes} /\ ~late => settings[theirs] = "theirs"
=============================================================================
