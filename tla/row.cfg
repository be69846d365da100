CONSTANTS
  film = film
  subtitles = subtitles
  t1 = t1
  t2 = t2
  File = {film, subtitles}
  Media = {film}
  This = t1
  Others = {t2}
  None = None
  MaxChanges = 3
  MaxLaunches = 3
SPECIFICATION RowSpec
INVARIANT RowInv
PROPERTIES EndIsNoticed QuitIsAnswered
