\* One call through a runtime started with each of the settings.
SPECIFICATION Spec
CONSTANTS
  Width = 8
  Ms = 10
  MaxAdapterMeta = 4
  InlineStreamLimit = 2
  FirstInstant <- MCFirstInstant
  LastInstant = 90
  AllowPrivateNetworks = FALSE
  MaxBodyBytes = 2
  MaxRedirects = 2
  Catalog <- MCCatalog
  MaxTimeout = 25
  SdkMaxTimeout = 30
  Environments <- MCEnvironments
  Calls <- MCCalls
  Latency = 12
  Start = 12
  Tick = 7
  End = 33
  Responses <- MCResponses
  ExitCodes <- MCExitCodes
  OutputSizes = {0, 3}
CHECK_DEADLOCK FALSE
INVARIANTS
  ReadsBack
  
  ReceiptKept
  InjectionContained
  EffectTold
  TimesInOrder
  HttpWithinLimits
