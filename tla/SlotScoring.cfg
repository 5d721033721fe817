CONSTANTS
  Window = 5
  Threshold = 4
  MaxSeen = 10
  VehicleLabels = {"car", "truck"}
  Confidence = 1
  MaxCandidates = 2
  InputSize = 8
  Places = {0, 1, 3, 4, 5, 7, 8}
  MaxBoxes = 3
SPECIFICATION ScoringSpec
INVARIANTS StateIsLastDecisiveVerdict BaysFindTheirCars
PROPERTY FlipsAreFarApart
