SPECIFICATION Spec
CONSTANTS
  Letters <- MCLetters
  Digits <- MCDigits
  Long <- MCLong
  Upper <- MCUpper
  Schema <- MCSchema
  Names <- MCNames
  Values <- MCValues
  MaxList = 2
  Words <- MCWords
  Garbage = Garbage
INVARIANTS TypeOK UnderstoodIsMeant SpacingIsFree
PROPERTIES RefusedIsHopeless
