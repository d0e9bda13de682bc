SPECIFICATION Spec
CONSTANTS
  video = video  course = course  path = path
  quiz = quiz  exam = exam  r1 = r1  r2 = r2
  Courses = {course}
  Paths = {path}
  Cohorts = {}
  Parts <- MCParts
  Required <- MCRequired
  Lessons = {video}
  CourseOf <- MCCourseOf
  Readable = {}
  Codes = {}
  MinWatch = 80
  Items = {quiz, exam}
  Quiz <- MCQuiz
  Gates <- MCGates
  Reports = {50, 90}
  None = None
  Requests = {r1, r2}
  MaxRequests = 3
  MaxInvalidations = 0
  MaxFails = 0
CHECK_DEADLOCK FALSE
PROPERTY
  NeverRevoked
