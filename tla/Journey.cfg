\* Every session; a journey ends with the cancellation.
CONSTANTS
  None = None
  Latin <- MCLatin
  Iata <- MCIata
  Sessions <- MCSessions
SPECIFICATION Spec
INVARIANTS
  TypeOK
  OpenWhenSupplierIs
  WhereNotWhat
  CoveragesOnce
  QuoteAsRates
  BookedAsOffered
  
  ExtrasOrdered
CHECK_DEADLOCK FALSE
