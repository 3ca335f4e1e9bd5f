SPECIFICATION Spec
CONSTANTS
  HoursPerMonth = 2
  zone = zone
  heating = heating
  Outputs = {zone, heating}
  Method <- Methods
  Recordings <- Samples
  Periods = {1, 2, 3, 4}
  Predictions = {18, 20}
  Freezing = 273
  Ceiling = 300
  Missing = Missing
  None = None
  NaN = NaN
  Null = Null
INVARIANTS ResamplingConserves MonthlyAgrees TableExplainsTotals PassIsEarned
