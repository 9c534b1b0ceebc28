-------------------------- MODULE GrillControlProofs --------------------------
(***************************************************************************)
(* The fan settles where the set point and the temperature say, for every  *)
(* set point and every temperature.                                        *)
(***************************************************************************)
EXTENDS GrillControl, TLAPS

\* Numbers are numbers.
LEMMA IntIsNumber == \A n \in Int : IsNumber(n)
  BY GrillAssumption DEF IsNumber

\* A sum of numbers is what the limits leave of it.
Limited(v, low, high) == IF v > high THEN high ELSE IF v < low THEN low ELSE v

\* robust_pid_sum of two numbers is their sum, limited.
LEMMA SumIs ==
  ASSUME NEW y \in Int, NEW terms \in Int, NEW low \in Int, NEW high \in Int
  PROVE  Sum(y, terms, low, high) = Limited(y + terms, low, high)
  BY IntIsNumber DEF Sum, Limited

\* What a controller remembers without NaN.
InRange(v) == v \in Int /\ 0 <= v /\ v <= 100 * Fine

Sound(ctx) == ctx.xk_1 \in Int /\ ctx.xk_2 \in Int /\ InRange(ctx.y_out)

\* The terms of a controller that remembers numbers are numbers; after two same readings only the error is left.
LEMMA TermsAre ==
  ASSUME NEW ctx, Sound(ctx), NEW sp \in Int, NEW t \in Int
  PROVE  /\ Terms(ctx, GainsX, sp, t) \in Int /\ Terms(ctx, GainsY, sp, t) \in Int
         /\ ctx.xk_1 = t /\ ctx.xk_2 = t => /\ Terms(ctx, GainsX, sp, t) = 11 * (sp - t)
                                            /\ Terms(ctx, GainsY, sp, t) = 245 * (sp - t)
<1>1. IsNumber(t) /\ IsNumber(ctx.xk_1) /\ IsNumber(ctx.xk_2)
  BY IntIsNumber DEF Sound
<1>2. /\ GainsX.kp = 6 /\ GainsX.ki = 11 /\ GainsX.kd = 10
      /\ GainsY.kp = 250 /\ GainsY.ki = 245 /\ GainsY.kd = 235
  BY DEF GainsX, GainsY
<1>3. PICK a \in Int, b \in Int : a = ctx.xk_1 /\ b = ctx.xk_2
  BY DEF Sound
<1>4. /\ Terms(ctx, GainsX, sp, t) = 6 * (a - t) + 11 * (sp - t) + 10 * (a + (a - t) - b)
      /\ Terms(ctx, GainsY, sp, t) = 250 * (a - t) + 245 * (sp - t) + 235 * (a + (a - t) - b)
  BY <1>1, <1>2, <1>3 DEF Terms
<1>5. /\ 6 * (a - t) + 11 * (sp - t) + 10 * (a + (a - t) - b) \in Int
      /\ 250 * (a - t) + 245 * (sp - t) + 235 * (a + (a - t) - b) \in Int
  OBVIOUS
<1>6. ASSUME a = t, b = t
      PROVE  /\ 6 * (a - t) + 11 * (sp - t) + 10 * (a + (a - t) - b) = 11 * (sp - t)
             /\ 250 * (a - t) + 245 * (sp - t) + 235 * (a + (a - t) - b) = 245 * (sp - t)
  BY <1>6
<1>7. QED
  BY <1>3, <1>4, <1>5, <1>6

\* A whole percent is rounded to itself.
LEMMA RoundedIs ==
  ASSUME NEW k \in 0..100
  PROVE  Rounded(Parts(k)) = {k}
<1>1. Fine \in Int /\ Fine > 0
  BY GrillAssumption
<1>2. k * Fine \in Int
  BY <1>1
<1>3. IsNumber(Parts(k))
  BY <1>2, IntIsNumber DEF Parts
<1>4. (2 * Parts(k) + Fine) \div (2 * Fine) = k
  <2>1. PICK f \in Int : f = 2 * Fine /\ f > 0
    BY <1>1
  <2>2. PICK h \in Int : h = Fine /\ 0 <= h /\ h < f
    BY <1>1, <2>1
  <2>3. 2 * Parts(k) + Fine = k * f + h
    BY <1>1, <2>1, <2>2, Z3 DEF Parts
  <2>4. (k * f + h) \div f = k
    BY <2>1, <2>2, Z3
  <2>5. QED
    BY <2>1, <2>3, <2>4
<1>5. k % 65536 = k
  OBVIOUS
<1>6. QED
  BY <1>3, <1>4, <1>5 DEF Rounded

\* What a turn gives.
LEMMA OutputsAre ==
  ASSUME Sound(pid_ctx), Sound(pid_cty), NEW sp \in Int, NEW t \in Int,
         NEW o, o = Outputs(sp, t)
  PROVE  /\ InRange(o.x) /\ InRange(o.y)
         /\ pid_ctx.xk_1 = t /\ pid_ctx.xk_2 = t /\ pid_cty.xk_1 = t /\ pid_cty.xk_2 = t
              => Creeps(sp - t) \/ o.out = Parts(Settled(sp, t))
<1>1. PICK F, e, x, y, xPrev, yPrev :
        /\ F = Fine /\ e = sp - t
        /\ x = Terms(pid_ctx, GainsX, sp, t) /\ y = Terms(pid_cty, GainsY, sp, t)
        /\ xPrev = pid_ctx.y_out /\ yPrev = pid_cty.y_out
  OBVIOUS
<1>2. F \in Int /\ F > 0 /\ e \in Int /\ x \in Int /\ y \in Int
  BY <1>1, TermsAre, GrillAssumption
<1>3. /\ xPrev \in Int /\ 0 <= xPrev /\ xPrev <= 100 * F
      /\ yPrev \in Int /\ 0 <= yPrev /\ yPrev <= 100 * F
  BY <1>1 DEF Sound, InRange
<1>4. PICK y1 : y1 = Limited(yPrev + y, 0, 30 * F)
  OBVIOUS
<1>5. PICK y2 : y2 = IF e < 20 * F /\ t > 550 * F THEN Limited(y1 + y, 0, 60 * F) ELSE y1
  OBVIOUS
<1>6. PICK xOut : xOut = IF e > 20 * F THEN Limited(xPrev + x, 0, 100 * F) ELSE xPrev
  OBVIOUS
<1>7. PICK y3 : y3 = IF (e < 6 * F /\ e > -3 * F) /\ t < 350 * F
                     THEN Limited(y2 + y, 30 * F, 50 * F) ELSE y2
  OBVIOUS
<1>8. PICK y4 : y4 = IF (e < 6 * F /\ e > -3 * F) /\ t > 349 * F /\ t < 550 * F
                     THEN Limited(y3 + y, 40 * F, 50 * F) ELSE y3
  OBVIOUS
<1>9. PICK y5 : y5 = IF (e < 6 * F /\ e > -3 * F) /\ t > 449 * F
                     THEN Limited(y4 + y, 60 * F, 100 * F) ELSE y4
  OBVIOUS
<1>10. /\ y1 \in Int /\ y2 \in Int /\ y3 \in Int /\ y4 \in Int
  <2>1. y1 \in Int
    BY <1>2, <1>3, <1>4 DEF Limited
  <2>2. y2 \in Int
    BY <1>2, <1>5, <2>1 DEF Limited
  <2>3. y3 \in Int
    BY <1>2, <1>7, <2>2 DEF Limited
  <2>4. y4 \in Int
    BY <1>2, <1>8, <2>3 DEF Limited
  <2>5. QED
    BY <2>1, <2>2, <2>3, <2>4
<1>11. /\ Sum(yPrev, y, 0, 30 * F) = Limited(yPrev + y, 0, 30 * F)
       /\ Sum(y1, y, 0, 60 * F) = Limited(y1 + y, 0, 60 * F)
       /\ Sum(xPrev, x, 0, 100 * F) = Limited(xPrev + x, 0, 100 * F)
       /\ Sum(y2, y, 30 * F, 50 * F) = Limited(y2 + y, 30 * F, 50 * F)
       /\ Sum(y3, y, 40 * F, 50 * F) = Limited(y3 + y, 40 * F, 50 * F)
       /\ Sum(y4, y, 60 * F, 100 * F) = Limited(y4 + y, 60 * F, 100 * F)
  <2>1. /\ 0 \in Int /\ 30 * F \in Int /\ 40 * F \in Int /\ 50 * F \in Int
        /\ 60 * F \in Int /\ 100 * F \in Int
    BY <1>2
  <2>2. QED
    <3>1. Sum(yPrev, y, 0, 30 * F) = Limited(yPrev + y, 0, 30 * F)
      BY <1>2, <1>3, <2>1, SumIs
    <3>2. Sum(y1, y, 0, 60 * F) = Limited(y1 + y, 0, 60 * F)
      BY <1>2, <1>10, <2>1, SumIs
    <3>3. Sum(xPrev, x, 0, 100 * F) = Limited(xPrev + x, 0, 100 * F)
      BY <1>2, <1>3, <2>1, SumIs
    <3>4. Sum(y2, y, 30 * F, 50 * F) = Limited(y2 + y, 30 * F, 50 * F)
      BY <1>2, <1>10, <2>1, SumIs
    <3>5. Sum(y3, y, 40 * F, 50 * F) = Limited(y3 + y, 40 * F, 50 * F)
      BY <1>2, <1>10, <2>1, SumIs
    <3>6. Sum(y4, y, 60 * F, 100 * F) = Limited(y4 + y, 60 * F, 100 * F)
      BY <1>2, <1>10, <2>1, SumIs
    <3>7. QED
      BY <3>1, <3>2, <3>3, <3>4, <3>5, <3>6
<1>12. o = [x |-> xOut, y |-> y5, out |-> IF e > 20 * F THEN xOut ELSE y5]
  <2>1. IsNumber(t)
    BY IntIsNumber
  <2>2. /\ y1 = Sum(pid_cty.y_out, y, 0, Parts(30))
        /\ y2 = IF IsNumber(t) /\ sp - t < Parts(20) /\ t > Parts(550)
                THEN Sum(y1, y, 0, Parts(60)) ELSE y1
        /\ xOut = IF IsNumber(t) /\ sp - t > Parts(20)
                  THEN Sum(pid_ctx.y_out, x, 0, Parts(100)) ELSE pid_ctx.y_out
    BY <1>1, <1>4, <1>5, <1>6, <1>11, <2>1 DEF Parts
  <2>3. /\ y3 = IF (IsNumber(t) /\ sp - t < Parts(6) /\ sp - t > Parts(-3)) /\ t < Parts(350)
                THEN Sum(y2, y, Parts(30), Parts(50)) ELSE y2
        /\ y4 = IF (IsNumber(t) /\ sp - t < Parts(6) /\ sp - t > Parts(-3))
                   /\ t > Parts(349) /\ t < Parts(550)
                THEN Sum(y3, y, Parts(40), Parts(50)) ELSE y3
        /\ y5 = IF (IsNumber(t) /\ sp - t < Parts(6) /\ sp - t > Parts(-3)) /\ t > Parts(449)
                THEN Sum(y4, y, Parts(60), Parts(100)) ELSE y4
    <3>1. /\ Parts(30) = 30 * F /\ Parts(40) = 40 * F /\ Parts(50) = 50 * F /\ Parts(60) = 60 * F
          /\ Parts(100) = 100 * F /\ Parts(6) = 6 * F /\ Parts(-3) = -3 * F
          /\ Parts(349) = 349 * F /\ Parts(350) = 350 * F /\ Parts(449) = 449 * F
          /\ Parts(550) = 550 * F
      BY <1>1, <1>2 DEF Parts
    <3>2. QED
      BY <1>1, <1>7, <1>8, <1>9, <1>11, <2>1, <3>1
  <2>4. Outputs(sp, t) = [x |-> xOut, y |-> y5,
                          out |-> IF IsNumber(t) /\ sp - t > Parts(20) THEN xOut ELSE y5]
    BY <1>1, <2>2, <2>3 DEF Outputs
  <2>5. (IsNumber(t) /\ sp - t > Parts(20)) <=> e > 20 * F
    BY <1>1, <2>1 DEF Parts
  <2>6. QED
    BY <2>4, <2>5
<1>13. /\ xOut \in Int /\ 0 <= xOut /\ xOut <= 100 * F
       /\ y5 \in Int /\ 0 <= y5 /\ y5 <= 100 * F
       /\ x = 11 * e /\ y = 245 * e /\ ~(e # 0 /\ e < F /\ e > -F)
            => (IF e > 20 * F THEN xOut ELSE y5) =
                 IF e > 20 * F THEN 100 * F
                 ELSE IF e <= -3 * F THEN 0
                 ELSE IF e >= 6 * F THEN IF t > 550 * F /\ e < 20 * F THEN 60 * F ELSE 30 * F
                 ELSE IF t > 449 * F THEN IF e > 0 THEN 100 * F ELSE 60 * F
                 ELSE IF e > 0 THEN 50 * F
                 ELSE IF t > 349 * F THEN 40 * F ELSE 30 * F
  <2> DEFINE near == e < 6 * F /\ e > -3 * F
  <2>1. y1 \in Int /\ 0 <= y1 /\ y1 <= 30 * F
    BY <1>2, <1>3, <1>4 DEF Limited
  <2>2. y2 \in Int /\ 0 <= y2 /\ y2 <= 60 * F
    BY <1>2, <1>5, <2>1 DEF Limited
  <2>3. y3 \in Int /\ 0 <= y3 /\ y3 <= 60 * F
    BY <1>2, <1>7, <2>2 DEF Limited
  <2>4. y4 \in Int /\ 0 <= y4 /\ y4 <= 60 * F
    BY <1>2, <1>8, <2>3 DEF Limited
  <2>5. y5 \in Int /\ 0 <= y5 /\ y5 <= 100 * F
    BY <1>2, <1>9, <2>4 DEF Limited
  <2>6. xOut \in Int /\ 0 <= xOut /\ xOut <= 100 * F
    BY <1>2, <1>3, <1>6 DEF Limited
  <2>7. ASSUME x = 11 * e, y = 245 * e, ~(e # 0 /\ e < F /\ e > -F), e > 20 * F
        PROVE  xOut = 100 * F
    BY <1>2, <1>3, <1>6, <2>7 DEF Limited
  <2>8. ASSUME y = 245 * e, e <= -3 * F
        PROVE  y5 = 0
    <3>1. y1 = 0
      BY <1>2, <1>3, <1>4, <2>8 DEF Limited
    <3>2. y2 = 0
      BY <1>2, <1>5, <2>8, <3>1 DEF Limited
    <3>3. QED
      BY <1>2, <1>7, <1>8, <1>9, <2>8, <3>2
  <2>9. ASSUME y = 245 * e, e >= 6 * F, ~(e > 20 * F)
        PROVE  y5 = IF t > 550 * F /\ e < 20 * F THEN 60 * F ELSE 30 * F
    <3>1. y1 = 30 * F
      BY <1>2, <1>3, <1>4, <2>9 DEF Limited
    <3>2. y2 = IF t > 550 * F /\ e < 20 * F THEN 60 * F ELSE 30 * F
      BY <1>2, <1>5, <2>9, <3>1 DEF Limited
    <3>3. QED
      BY <1>2, <1>7, <1>8, <1>9, <2>9, <3>2
  <2>10. ASSUME y = 245 * e, near, e >= F
         PROVE  y5 = IF t > 449 * F THEN 100 * F ELSE 50 * F
    <3>1. y >= 245 * F
      BY <1>2, <2>10
    <3>2. t < 350 * F => y3 = 50 * F
      BY <1>2, <1>7, <2>2, <2>10, <3>1 DEF Limited
    <3>3. t > 349 * F /\ t < 550 * F => y4 = 50 * F
      BY <1>2, <1>8, <2>3, <2>10, <3>1 DEF Limited
    <3>4. t > 449 * F => y5 = 100 * F
      BY <1>2, <1>9, <2>4, <2>10, <3>1 DEF Limited
    <3>5. t <= 349 * F => y4 = y3
      BY <1>2, <1>8
    <3>6. t <= 449 * F => y5 = y4
      BY <1>2, <1>9
    <3>7. QED
      BY <1>2, <3>2, <3>3, <3>4, <3>5, <3>6
  <2>11. ASSUME y = 245 * e, near, e = 0 \/ e <= -F
         PROVE  y5 = IF t > 449 * F THEN 60 * F ELSE IF t > 349 * F THEN 40 * F ELSE 30 * F
    <3>1. y <= 0 /\ (e = 0 => y = 0) /\ (e # 0 => y <= -245 * F)
      BY <1>2, <2>11
    <3>2. t < 350 * F => y3 = 30 * F
      BY <1>2, <1>5, <1>7, <2>1, <2>2, <2>11, <3>1 DEF Limited
    <3>3. t >= 350 * F /\ t <= 550 * F => y3 \in Int /\ y3 <= 30 * F
      BY <1>2, <1>5, <1>7, <2>1
    <3>4. t > 349 * F /\ t < 550 * F => y4 = 40 * F
      BY <1>2, <1>8, <2>3, <2>11, <3>1, <3>2, <3>3 DEF Limited
    <3>5. t > 449 * F => y5 = 60 * F
      BY <1>2, <1>9, <2>4, <2>11, <3>1 DEF Limited
    <3>6. t <= 349 * F => y4 = y3
      BY <1>2, <1>8
    <3>7. t <= 449 * F => y5 = y4
      BY <1>2, <1>9
    <3>8. QED
      BY <1>2, <3>2, <3>4, <3>5, <3>6, <3>7
  <2>12. QED
    BY <1>2, <2>5, <2>6, <2>7, <2>8, <2>9, <2>10, <2>11
<1>14. InRange(o.x) /\ InRange(o.y)
  BY <1>1, <1>12, <1>13 DEF InRange
<1>15. ASSUME pid_ctx.xk_1 = t, pid_ctx.xk_2 = t, pid_cty.xk_1 = t, pid_cty.xk_2 = t,
              ~Creeps(sp - t)
       PROVE  o.out = Parts(Settled(sp, t))
  <2>1. x = 11 * e /\ y = 245 * e
    BY <1>1, <1>15, TermsAre
  <2>2. ~(e # 0 /\ e < F /\ e > -F)
    BY <1>1, <1>2, <1>15 DEF Creeps, Parts
  <2>3. Parts(Settled(sp, t)) =
          IF e > 20 * F THEN 100 * F
          ELSE IF e <= -3 * F THEN 0
          ELSE IF e >= 6 * F THEN IF t > 550 * F /\ e < 20 * F THEN 60 * F ELSE 30 * F
          ELSE IF t > 449 * F THEN IF e > 0 THEN 100 * F ELSE 60 * F
          ELSE IF e > 0 THEN 50 * F
          ELSE IF t > 349 * F THEN 40 * F ELSE 30 * F
    BY <1>1, <1>2 DEF Settled, Parts
  <2>4. o.out = IF e > 20 * F THEN xOut ELSE y5
    BY <1>12
  <2>5. QED
    BY <1>13, <2>1, <2>2, <2>3, <2>4
<1>16. QED
  BY <1>14, <1>15

\* The settled duty is a whole percent.
LEMMA SettledIs == \A sp, t : Settled(sp, t) \in 0..100
  BY DEF Settled

-----------------------------------------------------------------------------
(* The invariant.                                                          *)

\* Until NaN is shown the controllers remember numbers; both remember the same two
\* temperatures, and these are one after two turns that showed the same.
IInv ==
  /\ at \in {"setpoint", "probe", "control"}
  /\ uart_setpoint \in Int
  /\ meat_probe_tempMP1 \in Int \cup {NotANumber}
  /\ act_grill_temp \in Int \cup {NotANumber}
  /\ held \in 0..3
  /\ poisoned \in BOOLEAN
  /\ ~poisoned => Sound(pid_ctx) /\ Sound(pid_cty)
  /\ pid_ctx.xk_1 = pid_cty.xk_1 /\ pid_ctx.xk_2 = pid_cty.xk_2
  /\ held >= 2 => pid_ctx.xk_2 = pid_ctx.xk_1
  /\ FanSettles

\* The task starts with both controllers at zero.
LEMMA GrillStarts == GrillInit => IInv
<1> SUFFICES ASSUME GrillInit PROVE IInv
  OBVIOUS
<1>1. Sound(pid_ctx) /\ Sound(pid_cty)
  BY GrillAssumption DEF GrillInit, Sound, InRange
<1>2. NoFrame \in Int
  BY GrillAssumption DEF NoFrame, Parts
<1>3. FanSettles
  BY DEF GrillInit, FanSettles
<1>4. /\ at \in {"setpoint", "probe", "control"} /\ uart_setpoint \in Int
      /\ meat_probe_tempMP1 \in Int \cup {NotANumber} /\ act_grill_temp \in Int \cup {NotANumber}
      /\ held \in 0..3 /\ ~(held >= 2)
  BY <1>2 DEF GrillInit
<1>5. pid_ctx = pid_cty /\ poisoned \in BOOLEAN
  BY DEF GrillInit
<1>6. QED
  BY <1>1, <1>3, <1>4, <1>5 DEF IInv

\* One turn of both controllers.
LEMMA ControlKeeps == IInv /\ Control => IInv'
<1> SUFFICES ASSUME IInv, Control PROVE IInv'
  OBVIOUS
<1>1. PICK o : /\ o = Outputs(Parts(uart_setpoint), act_grill_temp)
               /\ pid_ctx' = After(pid_ctx, o.x, act_grill_temp)
               /\ pid_cty' = After(pid_cty, o.y, act_grill_temp)
               /\ Controled_PWM_out' \in Rounded(o.out)
  BY DEF Control
<1>2. /\ pid_ctx'.xk_1 = act_grill_temp /\ pid_ctx'.xk_2 = pid_ctx.xk_1 /\ pid_ctx'.y_out = o.x
      /\ pid_cty'.xk_1 = act_grill_temp /\ pid_cty'.xk_2 = pid_cty.xk_1 /\ pid_cty'.y_out = o.y
  BY <1>1 DEF After
<1>3. /\ at' = "setpoint" /\ UNCHANGED <<uart_setpoint, meat_probe_tempMP1, act_grill_temp>>
      /\ poisoned' = (poisoned \/ ~IsNumber(act_grill_temp))
      /\ held' = Held
  BY DEF Control, inputs
<1>4. /\ held' \in 0..3
      /\ held' >= 2 => held >= 1 /\ pid_ctx.xk_1 = act_grill_temp
      /\ held' >= 3 => held >= 2
  BY <1>3 DEF IInv, Held
<1>5. /\ held' >= 2 => pid_ctx'.xk_2 = pid_ctx'.xk_1
      /\ held' = 3 => pid_ctx.xk_1 = act_grill_temp /\ pid_ctx.xk_2 = act_grill_temp
  BY <1>2, <1>4 DEF IInv
<1>6. CASE poisoned \/ ~IsNumber(act_grill_temp)
  BY <1>2, <1>3, <1>4, <1>5, <1>6 DEF IInv, FanSettles
<1>7. CASE ~poisoned /\ IsNumber(act_grill_temp)
  <2>1. /\ uart_setpoint \in Int /\ Parts(uart_setpoint) \in Int /\ act_grill_temp \in Int
        /\ Sound(pid_ctx) /\ Sound(pid_cty)
    BY <1>7, GrillAssumption DEF IInv, IsNumber, Parts
  <2>2. /\ InRange(o.x) /\ InRange(o.y)
        /\ held' = 3 /\ ~Creeps(Parts(uart_setpoint) - act_grill_temp)
             => o.out = Parts(Settled(Parts(uart_setpoint), act_grill_temp))
    BY <1>1, <1>5, <2>1, OutputsAre DEF IInv
  <2>3. ASSUME held' = 3, ~Creeps(Parts(uart_setpoint) - act_grill_temp)
        PROVE  Controled_PWM_out' = Settled(Parts(uart_setpoint), act_grill_temp)
    BY <1>1, <2>2, <2>3, SettledIs, RoundedIs
  <2>4. Sound(pid_ctx)' /\ Sound(pid_cty)'
    BY <1>2, <2>1, <2>2 DEF Sound, InRange
  <2>5. FanSettles'
    BY <1>3, <2>3 DEF FanSettles, Settled, Creeps, Parts
  <2>6. QED
    BY <1>2, <1>3, <1>4, <1>5, <2>1, <2>4, <2>5 DEF IInv
<1>8. QED
  BY <1>6, <1>7

\* The inputs disturb nothing: a turn is judged when it ends.
LEMMA InputKeeps == IInv /\ (ReadSetPoint \/ ReadProbe \/ UNCHANGED grillVars) => IInv'
<1> SUFFICES ASSUME IInv, ReadSetPoint \/ ReadProbe \/ UNCHANGED grillVars PROVE IInv'
  OBVIOUS
<1>1. UNCHANGED <<pid_ctx, pid_cty, Controled_PWM_out, held, poisoned>>
  BY DEF ReadSetPoint, ReadProbe, grillVars, control
<1>2. /\ at' \in {"setpoint", "probe", "control"}
      /\ uart_setpoint' \in Int
      /\ meat_probe_tempMP1' \in Int \cup {NotANumber}
      /\ act_grill_temp' \in Int \cup {NotANumber}
      /\ at' = "setpoint" => UNCHANGED <<at, uart_setpoint, act_grill_temp>>
  BY GrillAssumption DEF IInv, ReadSetPoint, ReadProbe, grillVars, inputs
<1>3. FanSettles'
  BY <1>1, <1>2 DEF IInv, FanSettles, Settled, Creeps, Parts
<1>4. QED
  BY <1>1, <1>2, <1>3 DEF IInv, Sound, InRange

\* For every set point and every temperature, in whatever order they came: after
\* three turns with one temperature the fan runs at what that temperature and the set
\* point say, if no NaN was ever shown and the error is 0 or a degree at least.
THEOREM FanAlwaysSettles == GrillSpec => []FanSettles
<1>1. IInv /\ [GrillNext]_grillVars => IInv'
  BY ControlKeeps, InputKeeps DEF GrillNext
<1>2. IInv => FanSettles
  BY DEF IInv
<1>3. QED
  BY GrillStarts, <1>1, <1>2, PTL DEF GrillSpec

=============================================================================
