SPECIFICATION Spec
CONSTANTS
  NMAX_SLAVES = 3
  Pin = {"adc", "kbd", "guest"}
  Unwired = "unwired"
  Digits = 16
  HalfClock = 16
  Reading = {"x", "-1"}
  AllOnes = "-1"
  Tick = 15625
  Config <- MCConfig
  AdcRequest <- MCAdc
  NMAX_FD = 5
  Node = {"ltc_2308", "kbd", "st_link_uart_tx"}
  Opens <- MCOpens
  FlagSets = {{}}
  Closes <- MCCloses
  KbdRequest <- MCKbd
  GuestRequest <- MCGuest
  MaxRead = 3
INVARIANTS TypeOK Tuned WholeSamples Connected
