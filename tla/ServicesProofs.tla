---------------------------- MODULE ServicesProofs ----------------------------
(***************************************************************************)
(* The components side by side.  Whichever of them moves, every one of     *)
(* them behaves as its own specification says, so that what was proved of  *)
(* a component holds in the composition too.                               *)
(***************************************************************************)
EXTENDS MCServices, HandlerProofs, PollerProofs, PortalProofs

(* A step of the composition is a step of each component or leaves the
   variables of that component alone. *)
LEMMA EachGoesOn ==
  ASSUME [ServicesNext]_servicesVars
  PROVE  /\ [TreeNext]_treeVars /\ [DigestNext]_digestVars /\ [MailNext]_mailVars
         /\ [HooksNext]_hookVars /\ [PresenceNext]_presenceVars
         /\ [SchedulesNext]_scheduleVars /\ [IncidentsNext]_incidentVars
         /\ [LoginNext]_loginVars /\ [RoutingNext]_routingVars
         /\ [PortalNext]_portalVars /\ [HoursNext]_walk
<1>1. CASE TicketsPart
  BY <1>1 DEF TicketsPart
<1>2. CASE TreePart
  BY <1>2 DEF TreePart
<1>3. CASE DigestPart
  BY <1>3 DEF DigestPart
<1>4. CASE MailPart
  BY <1>4 DEF MailPart
<1>5. CASE HooksPart
  BY <1>5 DEF HooksPart
<1>6. CASE PresencePart
  BY <1>6 DEF PresencePart
<1>7. CASE SchedulesPart
  BY <1>7 DEF SchedulesPart
<1>8. CASE IncidentsPart
  BY <1>8 DEF IncidentsPart
<1>9. CASE LoginPart
  BY <1>9 DEF LoginPart
<1>10. CASE RoutingPart
  BY <1>10 DEF RoutingPart
<1>11. CASE PortalPart
  BY <1>11 DEF PortalPart
<1>12. CASE HoursPart
  BY <1>12 DEF HoursPart
<1>13. CASE UNCHANGED servicesVars
  BY <1>13 DEF servicesVars
<1>14. QED
  BY <1>1, <1>2, <1>3, <1>4, <1>5, <1>6, <1>7, <1>8, <1>9, <1>10, <1>11, <1>12, <1>13
     DEF ServicesNext

(* The composition implements the specification of each component: what is
   proved of a component on its own holds of the services side by side. *)
THEOREM ComponentsKeepTheirSpecs ==
  ServicesSpec => /\ TreeSpec /\ DigestSpec /\ MailSpec /\ HooksSpec /\ PresenceSpec
                  /\ SchedulesSpec /\ IncidentsSpec /\ LoginSpec /\ RoutingSpec /\ HoursSpec
                  /\ PortalInit /\ [][PortalNext]_portalVars
<1>1. ServicesInit => /\ TreeInit /\ DigestInit /\ MailInit /\ HooksInit /\ PresenceInit
                      /\ SchedulesInit /\ IncidentsInit /\ LoginInit /\ RoutingInit /\ HoursInit
                      /\ PortalInit
  BY DEF ServicesInit
<1>2. QED
  BY <1>1, EachGoesOn, PTL
     DEF ServicesSpec, TreeSpec, DigestSpec, MailSpec, HooksSpec, PresenceSpec, SchedulesSpec,
         IncidentsSpec, LoginSpec, RoutingSpec, HoursSpec

(* Every row and every piece of memory of a handler, runner, poller or tab
   has one of its shapes, for any number of each of them. *)
THEOREM ServicesTypeCorrect ==
  ASSUME IsFiniteSet(Deliveries)
  PROVE  ServicesSpec => []ServicesTypeOK
<1>1. PortalInit /\ [][PortalNext]_portalVars => []PortalTypeOK
  <2>1. PortalInv /\ [PortalNext]_portalVars => PortalInv'
    BY PortalStepKeeps
  <2>2. PortalInv => PortalTypeOK
    BY DEF PortalInv
  <2>3. QED
    BY <2>1, <2>2, PortalStarts, PTL
<1>2. /\ TreeTypeOK /\ DigestTypeOK /\ MailTypeOK /\ HooksTypeOK /\ PresenceTypeOK
      /\ SchedulesTypeOK /\ IncidentsTypeOK /\ LoginTypeOK /\ RoutingTypeOK
      /\ PortalTypeOK /\ HoursTypeOK
      => ServicesTypeOK
  BY DEF ServicesTypeOK
<1>3. QED
  BY <1>1, <1>2, ComponentsKeepTheirSpecs, TreeTypeCorrect, DigestTypeCorrect, MailTypeCorrect,
     HooksTypeCorrect, PresenceTypeCorrect, SchedulesTypeCorrect, IncidentsTypeCorrect,
     LoginTypeCorrect, RoutingTypeCorrect, HoursTypeCorrect, PTL
=============================================================================
