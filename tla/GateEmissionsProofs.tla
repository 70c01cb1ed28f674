------------------------- MODULE GateEmissionsProofs -------------------------
(***************************************************************************)
(* What the plans of GateEmissions contain, in which order and how         *)
(* numbered: the facts the proofs about both of its users rest on.         *)
(***************************************************************************)
EXTENDS GateEmissions, TLAPS, SequenceTheorems

\* A sequence of one element.
LEMMA SingletonSeq ==
    ASSUME NEW S, NEW e \in S
    PROVE  <<e>> \in Seq(S) /\ Len(<<e>>) = 1 /\ <<e>>[1] = e /\ <<e>> # << >>
OBVIOUS

\* A rejected message is answered with one alert that carries its own number.
LEMMA RejectPlanFacts ==
    ASSUME NEW o \in Nat, NEW kind \in Rejections
    PROVE  LET p == RejectPlan(kind, o)
           IN  /\ p \in Seq(Emissions) /\ p # << >> /\ Len(p) = 1
               /\ p[1] = Emission(kind, o, o)
BY DEF RejectPlan, Rejections, Emission, Emissions, Kinds, AlertKinds

\* What main() emits for an accepted message numbered o (controller.py 334-399): the flood
\* alert if there is one, the impersonation alert if there is one, the message.
LEMMA AcceptPlanShape ==
    ASSUME NEW o \in Nat, NEW remarks \in Remarks
    PROVE  LET p == AcceptPlan(remarks, o)
               f == ForwardOffset(remarks, o)
               a == IF "FLOOD_ATTACK" \in remarks THEN 1 ELSE 0
               b == IF "NODE_IMPERSONATION" \in remarks THEN 1 ELSE 0
           IN  /\ f = o + b /\ p \in Seq(Emissions) /\ Len(p) = a + b + 1
               /\ a = 1 => p[1] = Emission("FLOOD_ATTACK", o, o)
               /\ b = 1 => p[a + 1] = Emission("NODE_IMPERSONATION", o, o + 1)
               /\ p[a + b + 1] = Emission("TELEMETRY", f, f)
<1> DEFINE f == ForwardOffset(remarks, o)
           a == IF "FLOOD_ATTACK" \in remarks THEN 1 ELSE 0
           b == IF "NODE_IMPERSONATION" \in remarks THEN 1 ELSE 0
           s1 == FloodPlan(remarks, o)
           s2 == ImpersonationPlan(remarks, o)
           e3 == Emission("TELEMETRY", f, f)
           s3 == <<e3>>
           s12 == s1 \o s2
           p == s12 \o s3
<1>1. f = o + b /\ f \in Nat /\ a \in {0, 1} /\ b \in {0, 1}
  BY DEF ForwardOffset
<1>2. /\ Emission("FLOOD_ATTACK", o, o) \in Emissions
      /\ Emission("NODE_IMPERSONATION", o, o + 1) \in Emissions
      /\ e3 \in Emissions
  BY <1>1 DEF Emission, Emissions, Kinds, AlertKinds
<1>3. /\ s1 \in Seq(Emissions) /\ Len(s1) = a
      /\ a = 1 => s1[1] = Emission("FLOOD_ATTACK", o, o)
  BY <1>2, EmptySeq, SingletonSeq DEF FloodPlan
<1>4. /\ s2 \in Seq(Emissions) /\ Len(s2) = b
      /\ b = 1 => s2[1] = Emission("NODE_IMPERSONATION", o, o + 1)
  BY <1>2, EmptySeq, SingletonSeq DEF ImpersonationPlan
<1>5. s3 \in Seq(Emissions) /\ Len(s3) = 1 /\ s3[1] = e3
  BY <1>2, SingletonSeq
<1> HIDE DEF f, a, b, s1, s2, e3, s3
<1>6. /\ s12 \in Seq(Emissions) /\ Len(s12) = Len(s1) + Len(s2)
      /\ \A i \in 1..Len(s12) : s12[i] = IF i <= Len(s1) THEN s1[i] ELSE s2[i - Len(s1)]
  BY <1>3, <1>4, ConcatProperties
<1> HIDE DEF s12
<1>7. /\ p \in Seq(Emissions) /\ Len(p) = Len(s12) + Len(s3)
      /\ \A i \in 1..Len(p) : p[i] = IF i <= Len(s12) THEN s12[i] ELSE s3[i - Len(s12)]
  BY <1>5, <1>6, ConcatProperties
<1> HIDE DEF p
<1>8. a = 1 => p[1] = Emission("FLOOD_ATTACK", o, o)
  BY <1>1, <1>3, <1>5, <1>6, <1>7
<1>9. b = 1 => p[a + 1] = Emission("NODE_IMPERSONATION", o, o + 1)
  BY <1>1, <1>3, <1>4, <1>5, <1>6, <1>7
<1>10. p[a + b + 1] = e3
  BY <1>1, <1>3, <1>4, <1>5, <1>6, <1>7
<1>11. Len(p) = a + b + 1
  BY <1>3, <1>4, <1>5, <1>6, <1>7
<1> QED
  BY <1>1, <1>7, <1>8, <1>9, <1>10, <1>11 DEF AcceptPlan, p, f, a, b, s12, s1, s2, s3, e3

\* The kinds of these emissions: an alert is in the plan exactly when its remark was made,
\* the flood alert first; the message comes last, once; a plan names no rogue.
LEMMA AcceptPlanKinds ==
    ASSUME NEW o \in Nat, NEW remarks \in Remarks, NEW k \in 1..Len(AcceptPlan(remarks, o))
    PROVE  LET p == AcceptPlan(remarks, o)
           IN  /\ p[k].kind \in {"FLOOD_ATTACK", "NODE_IMPERSONATION", "TELEMETRY"}
               /\ p[k].kind = "TELEMETRY" <=> k = Len(p)
               /\ p[k].kind = "FLOOD_ATTACK" => k = 1 /\ "FLOOD_ATTACK" \in remarks
               /\ p[k].kind = "NODE_IMPERSONATION" =>
                      k + 1 = Len(p) /\ "NODE_IMPERSONATION" \in remarks
<1> DEFINE p == AcceptPlan(remarks, o)
           f == ForwardOffset(remarks, o)
           a == IF "FLOOD_ATTACK" \in remarks THEN 1 ELSE 0
           b == IF "NODE_IMPERSONATION" \in remarks THEN 1 ELSE 0
<1>1. /\ Len(p) = a + b + 1
      /\ a = 1 => p[1] = Emission("FLOOD_ATTACK", o, o)
      /\ b = 1 => p[a + 1] = Emission("NODE_IMPERSONATION", o, o + 1)
      /\ p[a + b + 1] = Emission("TELEMETRY", f, f)
  BY AcceptPlanShape
<1>2. /\ a \in {0, 1} /\ b \in {0, 1}
      /\ a = 1 => "FLOOD_ATTACK" \in remarks
      /\ b = 1 => "NODE_IMPERSONATION" \in remarks
  OBVIOUS
<1> HIDE DEF p, f, a, b
<1>3. (k = 1 /\ a = 1) \/ (k = a + 1 /\ b = 1) \/ k = a + b + 1
  BY <1>1, <1>2 DEF p
<1> QED
  BY <1>1, <1>2, <1>3 DEF Emission, p

\* An impersonation that was noticed is reported.
LEMMA AcceptPlanReports ==
    ASSUME NEW o \in Nat, NEW remarks \in Remarks, "NODE_IMPERSONATION" \in remarks
    PROVE  \E k \in 1..Len(AcceptPlan(remarks, o)) :
               AcceptPlan(remarks, o)[k].kind = "NODE_IMPERSONATION"
<1> DEFINE p == AcceptPlan(remarks, o)
           a == IF "FLOOD_ATTACK" \in remarks THEN 1 ELSE 0
<1>1. Len(p) = a + 1 + 1 /\ p[a + 1] = Emission("NODE_IMPERSONATION", o, o + 1)
  BY AcceptPlanShape
<1>2. a \in {0, 1}
  OBVIOUS
<1> HIDE DEF p, a
<1>3. a + 1 \in 1..Len(p) /\ p[a + 1].kind = "NODE_IMPERSONATION"
  BY <1>1, <1>2 DEF Emission
<1> QED
  BY <1>3 DEF p

\* Their numbers: between o and the offset main() is left with, none smaller than the one
\* before it and equal only to a flood alert's, each covered by the save that precedes it.
LEMMA AcceptPlanNumbers ==
    ASSUME NEW o \in Nat, NEW remarks \in Remarks
    PROVE  LET p == AcceptPlan(remarks, o)
               f == ForwardOffset(remarks, o)
           IN  /\ f \in Nat /\ o <= f /\ p \in Seq(Emissions) /\ p # << >>
               /\ \A k \in 1..Len(p) : /\ o <= p[k].off /\ p[k].off <= p[k].save
                                       /\ p[k].save <= f
               /\ \A k, l \in 1..Len(p) : k < l =>
                      /\ p[k].save <= p[l].save
                      /\ p[k].off < p[l].off
                             \/ (p[k].off = p[l].off /\ p[k].kind = "FLOOD_ATTACK")
<1> DEFINE p == AcceptPlan(remarks, o)
           f == ForwardOffset(remarks, o)
           a == IF "FLOOD_ATTACK" \in remarks THEN 1 ELSE 0
           b == IF "NODE_IMPERSONATION" \in remarks THEN 1 ELSE 0
<1>1. /\ f = o + b /\ p \in Seq(Emissions) /\ Len(p) = a + b + 1
      /\ a = 1 => p[1] = Emission("FLOOD_ATTACK", o, o)
      /\ b = 1 => p[a + 1] = Emission("NODE_IMPERSONATION", o, o + 1)
      /\ p[a + b + 1] = Emission("TELEMETRY", f, f)
  BY AcceptPlanShape
<1>2. a \in {0, 1} /\ b \in {0, 1}
  OBVIOUS
<1> HIDE DEF p, f, a, b
<1>3. \A k \in 1..Len(p) : (k = 1 /\ a = 1) \/ (k = a + 1 /\ b = 1) \/ k = a + b + 1
  BY <1>1, <1>2
<1>4. ASSUME NEW k \in 1..Len(p)
      PROVE  o <= p[k].off /\ p[k].off <= p[k].save /\ p[k].save <= f
  BY <1>1, <1>2, <1>3 DEF Emission
<1>5. ASSUME NEW k \in 1..Len(p), NEW l \in 1..Len(p), k < l
      PROVE  /\ p[k].save <= p[l].save
             /\ p[k].off < p[l].off \/ (p[k].off = p[l].off /\ p[k].kind = "FLOOD_ATTACK")
  <2>1. CASE k = 1 /\ a = 1
    <3>1. p[k].off = o /\ p[k].save = o /\ p[k].kind = "FLOOD_ATTACK"
      BY <1>1, <2>1 DEF Emission
    <3>2. \/ p[l].off = o /\ p[l].save = o + 1
          \/ p[l].off = o + b /\ p[l].save = o + b
      BY <1>1, <1>2, <1>3, <1>5, <2>1 DEF Emission
    <3> QED
      BY <1>2, <3>1, <3>2
  <2>2. CASE k = a + 1 /\ b = 1
    <3>1. p[k].off = o /\ p[k].save = o + 1
      BY <1>1, <2>2 DEF Emission
    <3>2. p[l].off = o + 1 /\ p[l].save = o + 1
      <4>1. l = a + b + 1
        BY <1>1, <1>2, <1>5, <2>2
      <4> QED
        BY <1>1, <2>2, <4>1 DEF Emission
    <3> QED
      BY <3>1, <3>2
  <2>3. CASE k = a + b + 1
    BY <1>1, <1>2, <1>5, <2>3
  <2> QED
    BY <1>3, <2>1, <2>2, <2>3
<1>6. p # << >>
  BY <1>1, <1>2, EmptySeq
<1> QED
  BY <1>1, <1>2, <1>4, <1>5, <1>6 DEF p, f

=============================================================================
