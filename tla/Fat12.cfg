\* Four data clusters of eight bytes, a file of one to four of them anywhere,
\* reads from any of its sectors and from between two, and past its end.
SPECIFICATION Spec
CONSTANTS
  bytes_per_sector = 8
  reserved_sectors = 1
  number_of_fats = 2
  sectors_per_fat = 3
  root_entries = 1
  total_sectors = 15
  Ends = {4088, 4095}
  Beyond = {0, 3, 4095}
  From = {0, 3, 8, 16, 24}
  Size = {0, 2, 8, 11, 24}
  Name <- MCName
  Directory <- MCDirectory
  Wrap = 32
INVARIANTS
  ReadsFile
  WritesWithin
  FreeRight
  FindsFile
