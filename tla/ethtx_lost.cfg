SPECIFICATION FairSpec
CONSTANTS
  Descs = 2
  Others = {"a", "b"}
  Flaps = FALSE
  Traffic = FALSE
PROPERTIES Retransmitted
