SPECIFICATION AuthSpec
CONSTANTS
  Modulus = 6
  DetectMult = 1
  AuthType = "MeticulousKeyed"
  SenderKeys = {1, 2}
  ReceiverKeys = {1}
  Intervals = {6, 8}
  MaxStateChanges = 1
  FirstSeqs = {4}
  MaxRestarts = 1
  MaxDelay = 1
  MaxInFlight = 2
  BitErrors = {2}
PROPERTIES
  InOrder
  
  
