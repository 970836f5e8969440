SPECIFICATION PolySpec
CONSTANTS
  NoValue = NoValue
  int = int
  uniqueInt = uniqueInt
  sharedInt = sharedInt
  uniqueMsg = uniqueMsg
  sharedUniqueMsg = sharedUniqueMsg
  sharedMsg = sharedMsg
  otherMsg = otherMsg
  blob = blob
  sharedBlob = sharedBlob
  Types = {int, uniqueInt, sharedInt, uniqueMsg, sharedUniqueMsg, sharedMsg,
           otherMsg, blob, sharedBlob}
  Copyable = {int, sharedInt, sharedUniqueMsg, sharedMsg, otherMsg, sharedBlob}
  Serializable = {sharedMsg, uniqueMsg, otherMsg}
  SharedMsgs = {sharedMsg, otherMsg}
  PointerTo <- MCPointerTo
  Blob = blob
  Garbage = Garbage
  MaxWrites = 2
  MaxTrips = 2
INVARIANTS
  TypeSafe
  RoundTrip
