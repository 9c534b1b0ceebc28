----------------------------- MODULE GrillControl -----------------------------
(***************************************************************************)
(* The temperature control of the grill: atl_RPID_task reads a set point   *)
(* from the serial line and the probe's temperature from the front end,    *)
(* lets two PID controllers compute what the fan should do, chooses        *)
(* between them by how far and how hot the grill is, and writes the fan's  *)
(* duty.                                                                   *)
(*                                                                         *)
(* The code computes with float.  Here a degree and a percent are both     *)
(* divided into Fine parts, and temperatures, sums and limits are whole    *)
(* numbers of parts: the gains are whole numbers, so nothing is lost.  The *)
(* last bits of a float are not modelled.  What float has besides numbers  *)
(* is: NaN, which the probe's square root gives for a resistance out of    *)
(* range, and which goes through every sum and fails every comparison.     *)
(***************************************************************************)
EXTENDS Integers

CONSTANTS
  Fine,          \* parts of a degree Fahrenheit, and of a percent of duty
  Temperatures,  \* of the probe, in parts of a degree
  SetPoints,     \* what atoi makes of the serial line, in degrees
  NotANumber

ASSUME GrillAssumption ==
  /\ Fine \in Nat \ {0}
  /\ Temperatures \subseteq Int
  /\ SetPoints \subseteq Int
  /\ NotANumber \notin Int

VARIABLES
  at,                 \* what the loop of the task does next
  uart_setpoint,
  meat_probe_tempMP1, \* the temperature of the last frame
  act_grill_temp,
  pid_ctx, pid_cty,   \* the two controllers
  Controled_PWM_out,  \* what the fan is told
  held,               \* turns the probe has shown the same (counted up to 3)
  poisoned            \* the probe has shown NaN

inputs == <<uart_setpoint, meat_probe_tempMP1, act_grill_temp>>
control == <<pid_ctx, pid_cty, Controled_PWM_out, held, poisoned>>
grillVars == <<at, inputs, control>>

Parts(n) == n * Fine

\* What the probe's formula gives for 0, before the front end has sent a frame.
NoFrame == Parts(-268)

IsNumber(v) == v # NotANumber

-----------------------------------------------------------------------------
(* Plausible mistakes in the operators below, for the mutation runs.        *)

\* The output is limited above only.
LimitedAbove(y, terms, low, high) ==
  IF ~(IsNumber(y) /\ IsNumber(terms)) THEN NotANumber
  ELSE IF y + terms > high THEN high ELSE y + terms

-----------------------------------------------------------------------------
(* A controller.                                                            *)

\* robust_pid_calc: p_term, i_term and d_term, which the task only uses as a sum.
Terms(ctx, gains, setpoint, measure) ==
  IF IsNumber(measure) /\ IsNumber(ctx.xk_1) /\ IsNumber(ctx.xk_2)
  THEN gains.kp * (ctx.xk_1 - measure)
       + gains.ki * (setpoint - measure)
       + gains.kd * (ctx.xk_1 + (ctx.xk_1 - measure) - ctx.xk_2)
  ELSE NotANumber

\* robust_pid_sum.  The test for NaN is compiled out: the header defines
\* ROBUST_PID_FEATURE_VALID_FLT, the source asks for ROBBUST_PID_FEATURE_VALID_FLT.
Sum(y, terms, low, high) ==
  IF ~(IsNumber(y) /\ IsNumber(terms)) THEN NotANumber
  ELSE IF y + terms > high THEN high
  ELSE IF y + terms < low THEN low ELSE y + terms

GainsX == [kp |-> 6, ki |-> 11, kd |-> 10]
GainsY == [kp |-> 250, ki |-> 245, kd |-> 235]

\* The state of a controller after a turn.
After(ctx, y, measure) == [xk_1 |-> measure, xk_2 |-> ctx.xk_1, y_out |-> y]

\* (int)lroundf, in percent and kept in 16 bits.  For NaN the result is the
\* processor's: the largest or the smallest number.
Rounded(y) ==
  IF IsNumber(y) THEN {((2 * y + Fine) \div (2 * Fine)) % 65536} ELSE {0, 65535}

-----------------------------------------------------------------------------
(* One turn of the task.                                                    *)

\* The outputs of both controllers and the one chosen, in the order of the code.
\* Both dead bands are 0, so their tests always hold, also for NaN.
Outputs(sp, t) ==
  LET x    == Terms(pid_ctx, GainsX, sp, t)
      y    == Terms(pid_cty, GainsY, sp, t)
      far  == IsNumber(t) /\ sp - t > Parts(20)
      hot  == IsNumber(t) /\ sp - t < Parts(20) /\ t > Parts(550)
      near == IsNumber(t) /\ sp - t < Parts(6) /\ sp - t > Parts(-3)
      y1   == Sum(pid_cty.y_out, y, 0, Parts(30))
      y2   == IF hot THEN Sum(y1, y, 0, Parts(60)) ELSE y1
      xOut == IF far THEN Sum(pid_ctx.y_out, x, 0, Parts(100)) ELSE pid_ctx.y_out
      y3   == IF near /\ t < Parts(350) THEN Sum(y2, y, Parts(30), Parts(50)) ELSE y2
      y4   == IF near /\ t > Parts(349) /\ t < Parts(550)
              THEN Sum(y3, y, Parts(40), Parts(50)) ELSE y3
      y5   == IF near /\ t > Parts(449) THEN Sum(y4, y, Parts(60), Parts(100)) ELSE y4
  IN [x |-> xOut, y |-> y5, out |-> IF far THEN xOut ELSE y5]

\* read_win_uart and atoi: whatever text the two reads of the line left in the
\* buffer, or the one before.
ReadSetPoint ==
  /\ at = "setpoint"
  /\ at' = "probe"
  /\ uart_setpoint' \in SetPoints \cup {uart_setpoint}
  /\ UNCHANGED <<meat_probe_tempMP1, act_grill_temp, control>>

\* measure_Pit_probe_Fahrenheit: a frame whose check byte is right, or the last one.
ReadProbe ==
  /\ at = "probe"
  /\ at' = "control"
  /\ meat_probe_tempMP1' \in Temperatures \cup {NotANumber, meat_probe_tempMP1}
  /\ act_grill_temp' = meat_probe_tempMP1'
  /\ UNCHANGED <<uart_setpoint, control>>

\* Three turns are remembered.
Held ==
  IF held > 0 /\ pid_ctx.xk_1 = act_grill_temp THEN IF held = 3 THEN 3 ELSE held + 1 ELSE 1

\* The controllers, the bands and write_PWM.
Control ==
  /\ at = "control"
  /\ at' = "setpoint"
  /\ \E o \in {Outputs(Parts(uart_setpoint), act_grill_temp)} :
       /\ pid_ctx' = After(pid_ctx, o.x, act_grill_temp)
       /\ pid_cty' = After(pid_cty, o.y, act_grill_temp)
       /\ Controled_PWM_out' \in Rounded(o.out)
  /\ held' = Held
  /\ poisoned' = (poisoned \/ ~IsNumber(act_grill_temp))
  /\ UNCHANGED inputs

GrillInit ==
  /\ at = "setpoint"
  /\ uart_setpoint = 0
  /\ meat_probe_tempMP1 = NoFrame
  /\ act_grill_temp = 0
  /\ pid_ctx = [xk_1 |-> 0, xk_2 |-> 0, y_out |-> 0]
  /\ pid_cty = [xk_1 |-> 0, xk_2 |-> 0, y_out |-> 0]
  /\ Controled_PWM_out = 0
  /\ held = 0
  /\ poisoned = FALSE

GrillNext == ReadSetPoint \/ ReadProbe \/ Control

GrillSpec == GrillInit /\ [][GrillNext]_grillVars

-----------------------------------------------------------------------------
(* Properties.                                                             *)

\* The duty at which the fan settles, by the set point and the temperature alone.
Settled(sp, t) ==
  LET e == sp - t IN
  IF e > Parts(20) THEN 100
  ELSE IF e <= Parts(-3) THEN 0
  ELSE IF e >= Parts(6) THEN IF t > Parts(550) /\ e < Parts(20) THEN 60 ELSE 30
  ELSE IF t > Parts(449) THEN IF e > 0 THEN 100 ELSE 60
  ELSE IF e > 0 THEN 50
  ELSE IF t > Parts(349) THEN 40 ELSE 30

\* Nearer to the set point than a degree, but not at it, the fan creeps.
Creeps(e) == e # 0 /\ e < Parts(1) /\ e > Parts(-1)

\* However the temperature and the set point went before, and whichever controller
\* drove the fan: a probe that shows the same for three turns leaves no trace of them
\* in the fan's duty, unless it has ever shown NaN or is within a degree.
FanSettles ==
  at = "setpoint" /\ held = 3 /\ ~poisoned
    => \/ Creeps(Parts(uart_setpoint) - act_grill_temp)
       \/ Controled_PWM_out = Settled(Parts(uart_setpoint), act_grill_temp)

=============================================================================
