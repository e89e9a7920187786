SPECIFICATION Spec
CONSTANTS
  c1 = c1
  c2 = c2
  gpt = gpt
  llama = llama
  oldGpt = oldGpt
  oldLlama = oldLlama
  p1 = p1
  p2 = p2
  Events = 6
  TimeOf <- MCTimeOf
  ClientOf <- MCClientOf
  Successful <- MCSuccessful
  Stored <- MCStored
  InFile <- MCInFile
  HourLength = 2
  DayLength = 4
  Week = 4
  Month = 8
  FileBatch = 2
  AggBatch = 2
  Client = {c1, c2}
  ClientsInFile = {c1}
  Model = {gpt, llama}
  Price = {p1, p2}
  NoPrice = noPrice
  Legacy = {oldGpt, oldLlama}
  ModelOf <- MCModelOf
  KeysWithColon <- MCKeysWithColon
  StoredPrices <- MCStoredPrices
  PricesInFile <- MCPricesInFile
  MaxCrashes = 2
  MaxFailures = 2
  MaxChanges = 2
INVARIANTS
  CountsEveryEvent
  ReportsAgree
  ImportedOnce
CHECK_DEADLOCK FALSE
