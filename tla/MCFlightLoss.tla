----------------------------- MODULE MCFlightLoss -----------------------------
EXTENDS FlightLoss

\* Sticks to arm, to hover and to fly the mission, see MCFlight.
LossFrames ==
  { [throt |-> "low", rudd |-> "right", tilt |-> FALSE, sw |-> MANUAL, hom |-> "off", wp |-> FALSE],
    [throt |-> "up", rudd |-> "centre", tilt |-> FALSE, sw |-> POSHOLD, hom |-> "off", wp |-> FALSE],
    [throt |-> "up", rudd |-> "centre", tilt |-> FALSE, sw |-> MISSION, hom |-> "off", wp |-> FALSE] }
===============================================================================
