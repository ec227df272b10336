CONSTANTS
  MAX_ELEMENTS = 4
  IntValues <- FourValues
  IntHalf = 32
  Texts <- MCTexts
  Garbage <- MCGarbage
  MINIMUM_MATRIX_SIZE = 2
  MAXIMUM_MATRIX_SIZE = 4
  MAXIMUM_RANDOM_VALUE = 256
  Pictures <- MCPictures
  MAX_STUDENTS = 2
  MAX_ROLL = 2
  MAX_MARKS = 100
  Numbers <- MCNumbers
  StudentLines <- MCStudents
  MALFORMED = MALFORMED
  INITIAL_NUMBER_OF_PRODUCTS = 3
  MAXIMUM_ID = 3
  MAXIMUM_QUANTITY = 1
  MAXIMUM_PRICE = 5
  MAXIMUM_NAME_LENGTH = 3
  ProductIntHalf = 8
  Longs <- MCLongs
  Decimals <- MCDecimals
  NameLines <- MCNames
  NULL = NULL
  UNKNOWN = UNKNOWN
  NAN = NAN
SPECIFICATION MCSpec
INVARIANTS
  LoopInv
  AnswerOK
  PictureOK
  RegisterOK
  InventoryOK
PROPERTIES
  AllReturn
  RefinesCatalogue
CHECK_DEADLOCK FALSE
